---- MODULE Spec2Model ----
(***************************************************************************)
(* cmake-language-server: the Token Mode parser (parser.py), the formatter *)
(* and its command line (formatter.py), the AST grammar (grammar.py), the  *)
(* diagnostic visitors (diagnostics.py) and the formatting request of the  *)
(* server (server.py).                                                     *)
(*                                                                         *)
(* A text is a sequence of one-character strings.  Positions are 1-based:  *)
(* position p of the model is offset p-1 of the Python string.             *)
(***************************************************************************)
EXTENDS Integers, Sequences, FiniteSets, TLC

VARIABLES
    pc,         \* position of the command line run / of the diagnostic pass
    mode,       \* "stdout", "inplace" or "diff" (args.inplace, args.diff)
    pass,       \* 1: the run on the original text, 2: the run on its own output
    lists,      \* args.lists: the list files of the run, as they were at its start
    disk,       \* the files the loop of main is through with, as it left them
    file,       \* content of the list file on disk (listpath)
    content,    \* main: content
    tokens,     \* main: tokens
    remain,     \* main: remain
    formatted,  \* main: formatted
    stdout,     \* what the run printed, one entry per print
    writes,     \* number of times the file was opened for writing
    first,      \* the output of pass 1 (kept to compare with pass 2)
    ast,        \* result of the AST grammar on content
    diags,      \* diagnostics of the visitors, one list per rule
    reply,      \* what the server returned for the request
    shown,      \* the messages the server showed (show_message)
    bracket_forward,  \* the close marker in the Forward bracket_content of a
                      \* ListParser that several calls use; <<>> when one call
                      \* runs alone: the marker is then the one the action of the
                      \* opener being matched has just set
    calls,            \* the parse calls under way on that ListParser
    query_json,       \* which of the client directory of the query and of its
                      \* file query.json exist in the build directory
    targets,          \* API._targets
    cached_variables, \* API._cached_variables: the names that have a document
    runs,             \* the threads of run_cmake
    requests          \* what the requests handled so far found in the tables

vars == <<pc, mode, pass, lists, disk, file, content, tokens, remain, formatted,
          stdout, writes, first, ast, diags, reply, shown,
          bracket_forward, calls, query_json, targets, cached_variables, runs,
          requests>>

-----------------------------------------------------------------------------
(* Characters *)

NL == "\n"
TAB == "\t"
BSL == "\\"
DQ == "\""
EOFCH == ""

LowerSeq == <<"a", "b", "c", "d", "e", "f", "g", "h", "i", "j", "k", "l", "m",
              "n", "o", "p", "q", "r", "s", "t", "u", "v", "w", "x", "y", "z">>
UpperSeq == <<"A", "B", "C", "D", "E", "F", "G", "H", "I", "J", "K", "L", "M",
              "N", "O", "P", "Q", "R", "S", "T", "U", "V", "W", "X", "Y", "Z">>
Range(f) == {f[i] : i \in DOMAIN f}
alphas == Range(LowerSeq) \cup Range(UpperSeq)
alphanums == alphas \cup {"0", "1", "2", "3", "4", "5", "6", "7", "8", "9"}
\* what the regex class \s, str.isspace and str.rstrip treat as white space
Whitespace == {" ", TAB, NL, "\r", "\f"}

\* str.lower
lower(str) ==
    [i \in DOMAIN str |->
        IF str[i] \in Range(UpperSeq)
        THEN LowerSeq[CHOOSE k \in DOMAIN UpperSeq : UpperSeq[k] = str[i]]
        ELSE str[i]]

At(s, i) == IF i >= 1 /\ i <= Len(s) THEN s[i] ELSE EOFCH

\* s[i:] of Python with i = p - 1
From(s, p) == IF p > Len(s) THEN <<>> ELSE SubSeq(s, p, Len(s))

RECURSIVE Rep(_, _)
Rep(c, n) == IF n <= 0 THEN <<>> ELSE <<c>> \o Rep(c, n - 1)

RECURSIVE Flatten(_)
Flatten(ss) == IF ss = <<>> THEN <<>> ELSE Head(ss) \o Flatten(Tail(ss))

\* first position >= i whose character is not in C
RECURSIVE SpanEnd(_, _, _)
SpanEnd(s, i, C) == IF At(s, i) \in C THEN SpanEnd(s, i + 1, C) ELSE i

-----------------------------------------------------------------------------
(* Parse results: ok, the position after the match, the tokens matched *)

Fail == [ok |-> FALSE, pos |-> 0, toks |-> <<>>]
Ok(p, t) == [ok |-> TRUE, pos |-> p, toks |-> t]

\* pp.And (the + of two expressions): q is the match of the second one at
\* the position where the match r of the first one ends
Join(r, q) == IF r.ok /\ q.ok THEN Ok(q.pos, r.toks \o q.toks) ELSE Fail

\* pp.MatchFirst (the | of two expressions)
OrElse(r, q) == IF r.ok THEN r ELSE q

\* pp.Optional: an empty match at i when the expression fails there
Optional(r, i) == IF r.ok THEN r ELSE Ok(i, <<>>)

\* pp.Suppress and pp.Group
Suppress(r) == IF r.ok THEN Ok(r.pos, <<>>) ELSE Fail
Group(r) == IF r.ok THEN Ok(r.pos, <<r.toks>>) ELSE Fail

-----------------------------------------------------------------------------
(* Lexical rules of ListParser.__init__ *)

\* pp.Regex('[ \t]+')
space_plus(s, i) ==
    LET e == SpanEnd(s, i, {" ", TAB})
    IN  IF e > i THEN Ok(e, <<SubSeq(s, i, e - 1)>>) ELSE Fail

\* pp.Optional(space_plus)
space_star(s, i) == Optional(space_plus(s, i), i)

\* ... + space_star, after the match r
ThenSpaceStar(s, r) == IF r.ok THEN Join(r, space_star(s, r.pos)) ELSE Fail

\* \\[^A-Za-z0-9]|\\[trn] at i: the position after the escape, 0 if none
EscapeEnd(s, i) ==
    IF   /\ At(s, i) = BSL
         /\ At(s, i + 1) # EOFCH
         /\ (At(s, i + 1) \notin alphanums \/ At(s, i + 1) \in {"t", "r", "n"})
    THEN i + 2
    ELSE 0

\* pp.Regex(r'[^\\"]|\\[^A-Za-z0-9]|\\[trn]')
quoted_element(s, i) ==
    IF At(s, i) # EOFCH /\ At(s, i) \notin {BSL, DQ} THEN i + 1 ELSE EscapeEnd(s, i)

RECURSIVE QuotedElementsEnd(_, _)
QuotedElementsEnd(s, i) ==
    LET e == quoted_element(s, i) IN IF e = 0 THEN i ELSE QuotedElementsEnd(s, e)

\* pp.Combine('"' + pp.ZeroOrMore(quoted_element) + '"')
quoted_argument(s, i) ==
    IF At(s, i) # DQ THEN Fail
    ELSE LET e == QuotedElementsEnd(s, i + 1)
         IN  IF At(s, e) = DQ THEN Ok(e + 1, <<SubSeq(s, i, e)>>) ELSE Fail

\* pp.Regex(r'\[=*\[')
bracket_open(s, i) ==
    IF At(s, i) # "[" THEN Fail
    ELSE LET e == SpanEnd(s, i + 1, {"="})
         IN  IF At(s, e) = "[" THEN Ok(e + 1, <<SubSeq(s, i, e)>>) ELSE Fail

\* a mutation of action_bracket_open: the marker of a fence without '='
action_bracket_open_fixed(opener) == <<"]", "]">>

\* the close marker the parse action builds from the opener it is given
action_bracket_open(opener) == <<"]">> \o Rep("=", Len(opener) - 2) \o <<"]">>

MatchAt(s, p, lit) ==
    /\ p + Len(lit) - 1 <= Len(s)
    /\ SubSeq(s, p, p + Len(lit) - 1) = lit

\* pp.SkipTo(marker, include=True): the position of the first marker at or
\* after i, 0 if there is none
RECURSIVE SkipTo(_, _, _)
SkipTo(s, i, marker) ==
    IF i > Len(s) THEN 0
    ELSE IF MatchAt(s, i, marker) THEN i
    ELSE SkipTo(s, i + 1, marker)

\* bracket_content, as bound by the parse action of the opener just matched
bracket_content(s, i, marker) ==
    LET p == SkipTo(s, i, marker)
    IN  IF p = 0 THEN Fail
        ELSE Ok(p + Len(marker), <<SubSeq(s, i, p + Len(marker) - 1)>>)

\* pp.Combine(bracket_open + bracket_content): bracket_content is matched
\* as the Forward of the parser is bound when the opener has been matched,
\* by the action of that opener unless another call on the parser has
\* rebound it since
bracket_argument(s, i) ==
    LET o == bracket_open(s, i)
    IN  IF ~o.ok THEN Fail
        ELSE LET c == bracket_content(s, o.pos,
                          IF bracket_forward = <<>> THEN action_bracket_open(o.toks[1])
                          ELSE bracket_forward)
             IN  IF c.ok THEN Ok(c.pos, <<SubSeq(s, i, c.pos - 1)>>) ELSE Fail

\* pp.Regex(r'[^\s()#"\\]|\\[^A-Za-z0-9]|\\[trn]')
unquoted_element(s, i) ==
    IF At(s, i) # EOFCH /\ At(s, i) \notin (Whitespace \cup {"(", ")", "#", DQ, BSL})
    THEN i + 1
    ELSE EscapeEnd(s, i)

RECURSIVE UnquotedElementsEnd(_, _)
UnquotedElementsEnd(s, i) ==
    LET e == unquoted_element(s, i) IN IF e = 0 THEN i ELSE UnquotedElementsEnd(s, e)

\* pp.Combine(pp.OneOrMore(unquoted_element))
unquoted_argument(s, i) ==
    LET e == UnquotedElementsEnd(s, i)
    IN  IF e > i THEN Ok(e, <<SubSeq(s, i, e - 1)>>) ELSE Fail

\* bracket_argument | quoted_argument | unquoted_argument
argument(s, i) ==
    OrElse(bracket_argument(s, i),
           OrElse(quoted_argument(s, i), unquoted_argument(s, i)))

\* pp.SkipTo(pp.LineEnd()): the next newline or the end of the text
RECURSIVE SkipToLineEnd(_, _)
SkipToLineEnd(s, i) ==
    IF i > Len(s) \/ s[i] = NL THEN i ELSE SkipToLineEnd(s, i + 1)

\* pp.Combine('#' + ~bracket_open + pp.SkipTo(pp.LineEnd()))
line_comment(s, i) ==
    IF At(s, i) = "#" /\ ~bracket_open(s, i + 1).ok
    THEN LET e == SkipToLineEnd(s, i + 1) IN Ok(e, <<SubSeq(s, i, e - 1)>>)
    ELSE Fail

\* pp.Combine('#' + bracket_argument)
bracket_comment(s, i) ==
    IF At(s, i) # "#" THEN Fail
    ELSE LET b == bracket_argument(s, i + 1)
         IN  IF b.ok THEN Ok(b.pos, <<SubSeq(s, i, b.pos - 1)>>) ELSE Fail

\* pp.ZeroOrMore(bracket_comment + space_star)
RECURSIVE BracketComments(_, _), MoreBracketComments(_, _, _)
BracketComments(s, i) == MoreBracketComments(s, i, ThenSpaceStar(s, bracket_comment(s, i)))

\* the repetition, after the match one of (bracket_comment + space_star) at i
MoreBracketComments(s, i, one) ==
    IF one.ok THEN Join(one, BracketComments(s, one.pos)) ELSE Ok(i, <<>>)

\* ... + ZeroOrMore(bracket_comment + space_star), after the match r
ThenBracketComments(s, r) ==
    IF r.ok THEN Join(r, BracketComments(s, r.pos)) ELSE Fail

\* ... + pp.Optional(line_comment), after the match r
ThenOptionalLineComment(s, r) ==
    IF r.ok THEN Join(r, Optional(line_comment(s, r.pos), r.pos)) ELSE Fail

\* (newline | pp.lineEnd): a newline, or the end of the text, where
\* pp.LineEnd matches once, yields no token and moves one position on
LineEndAlt(s, i) ==
    IF At(s, i) = NL THEN Ok(i + 1, <<(<<NL>>)>>)
    ELSE IF i = Len(s) + 1 THEN Ok(i + 1, <<>>)
    ELSE Fail

\* ... + (newline | pp.lineEnd), after the match r
ThenLineEndAlt(s, r) == IF r.ok THEN Join(r, LineEndAlt(s, r.pos)) ELSE Fail

\* space_star + ZeroOrMore(bracket_comment + space_star)
\*   + Optional(line_comment) + (newline | lineEnd)
line_ending(s, i) ==
    ThenLineEndAlt(s, ThenOptionalLineComment(s, ThenBracketComments(s, space_star(s, i))))

\* pp.Word(pp.alphas + '_', pp.alphanums + '_')
identifier(s, i) ==
    IF At(s, i) \in alphas \cup {"_"}
    THEN LET e == SpanEnd(s, i + 1, alphanums \cup {"_"})
         IN  Ok(e, <<SubSeq(s, i, e - 1)>>)
    ELSE Fail

\* a mutation of paren_group: the closing parenthesis is matched but not kept
paren_group_unclosed(s, i, inner) ==
    IF At(s, i) = "(" /\ At(s, inner.pos) = ")"
    THEN Ok(inner.pos + 1, <<(<<"(">>)>> \o inner.toks)
    ELSE Fail

\* '(' + arguments + ')' at i, given the match of the inner arguments at i + 1
paren_group(s, i, inner) ==
    IF At(s, i) = "(" /\ At(s, inner.pos) = ")"
    THEN Ok(inner.pos + 1, <<(<<"(">>)>> \o inner.toks \o <<(<<")">>)>>)
    ELSE Fail

\* arguments << ZeroOrMore(argument | line_ending | space_plus
\*                         | '(' + arguments + ')')
RECURSIVE arguments(_, _), MoreArguments(_, _, _)
arguments(s, i) ==
    MoreArguments(s, i,
        OrElse(argument(s, i),
        OrElse(line_ending(s, i),
        OrElse(space_plus(s, i),
               IF At(s, i) = "(" THEN paren_group(s, i, arguments(s, i + 1))
               ELSE Fail))))

\* the repetition, after the match one of an alternative at i
MoreArguments(s, i, one) ==
    IF one.ok THEN Join(one, arguments(s, one.pos)) ELSE Ok(i, <<>>)

\* Tokens of the stream: a string, or the tuple (identifier, arguments)
StrTok(t) == [cmd |-> FALSE, text |-> t, args |-> <<>>]
CmdTok(id, a) == [cmd |-> TRUE, text |-> id, args |-> a]

\* PAREN_L, PAREN_R = map(pp.Suppress, '()')
\* ... + space_star.suppress() + PAREN_L + pp.Group(arguments) + PAREN_R,
\* each after the match r
ThenSuppressedSpaceStar(s, r) ==
    IF r.ok THEN Join(r, Suppress(space_star(s, r.pos))) ELSE Fail
ThenPAREN_L(s, r) ==
    IF r.ok /\ At(s, r.pos) = "(" THEN Ok(r.pos + 1, r.toks) ELSE Fail
ThenGroupedArguments(s, r) ==
    IF r.ok THEN Join(r, Group(arguments(s, r.pos))) ELSE Fail
ThenPAREN_R(s, r) ==
    IF r.ok /\ At(s, r.pos) = ")" THEN Ok(r.pos + 1, r.toks) ELSE Fail

\* the parse action of command_invocation: lambda t: (t[0], t[1].asList())
CommandTuple(r) == IF r.ok THEN Ok(r.pos, <<CmdTok(r.toks[1], r.toks[2])>>) ELSE Fail

\* identifier + space_star.suppress() + PAREN_L + arguments + PAREN_R
command_invocation(s, i) ==
    CommandTuple(
        ThenPAREN_R(s,
            ThenGroupedArguments(s,
                ThenPAREN_L(s,
                    ThenSuppressedSpaceStar(s, identifier(s, i))))))

\* ... + command_invocation, after the match r
ThenCommandInvocation(s, r) ==
    IF r.ok THEN Join(r, command_invocation(s, r.pos)) ELSE Fail

\* the string tokens of a match, as tokens of the stream
Strings(r) ==
    IF r.ok THEN Ok(r.pos, [k \in DOMAIN r.toks |-> StrTok(r.toks[k])]) ELSE Fail
ThenLineEndingStrings(s, r) ==
    IF r.ok THEN Join(r, Strings(line_ending(s, r.pos))) ELSE Fail

\* (space_star + command_invocation + line_ending | line_ending)
file_element(s, i) ==
    OrElse(ThenLineEndingStrings(s,
               ThenCommandInvocation(s, Strings(space_star(s, i)))),
           Strings(line_ending(s, i)))

\* file = pp.ZeroOrMore(file_element)
RECURSIVE file_elements(_, _), MoreFileElements(_, _, _)
file_elements(s, i) == MoreFileElements(s, i, file_element(s, i))

\* the repetition, after the match one of file_element at i
MoreFileElements(s, i, one) ==
    IF one.ok THEN Join(one, file_elements(s, one.pos)) ELSE Ok(i, <<>>)

\* scanString works on str.expandtabs() of its input: a tab becomes the
\* spaces up to the next multiple of TabSize columns of its line
TabSize == 8
RECURSIVE ExpandFrom(_, _, _)
ExpandFrom(s, i, col) ==
    IF i > Len(s) THEN <<>>
    ELSE IF s[i] = TAB
         THEN Rep(" ", TabSize - (col % TabSize)) \o ExpandFrom(s, i + 1, 0)
    ELSE IF s[i] \in {NL, "\r"} THEN <<s[i]>> \o ExpandFrom(s, i + 1, 0)
    ELSE <<s[i]>> \o ExpandFrom(s, i + 1, col + 1)
expandtabs(s) == ExpandFrom(s, 1, 0)

\* ListParser.parse: the first match of scanString counts only when it
\* starts at offset 0 and is not empty; the remainder is cut from liststr
\* at the end offset of the match in the expanded text
parse(liststr) ==
    LET r == file_elements(expandtabs(liststr), 1)
    IN  IF r.pos > 1
        THEN [tokens |-> r.toks, remain |-> From(liststr, r.pos)]
        ELSE [tokens |-> <<>>, remain |-> liststr]

-----------------------------------------------------------------------------
(* Formatter (formatter.py) *)

\* Formatter.__init__ defaults: indent='  ', lower_identifier=True
indent == <<" ", " ">>
lower_identifier == TRUE

\* identifiers that take one level off before their line is emitted
DeindentKeywords ==
    {<<"e", "l", "s", "e", "i", "f">>,
     <<"e", "l", "s", "e">>,
     <<"e", "n", "d", "i", "f">>,
     <<"e", "n", "d", "f", "o", "r", "e", "a", "c", "h">>,
     <<"e", "n", "d", "w", "h", "i", "l", "e">>,
     <<"e", "n", "d", "m", "a", "c", "r", "o">>,
     <<"e", "n", "d", "f", "u", "n", "c", "t", "i", "o", "n">>}
\* identifiers that add one level after their line is emitted
ReindentKeywords ==
    {<<"i", "f">>,
     <<"e", "l", "s", "e", "i", "f">>,
     <<"e", "l", "s", "e">>,
     <<"f", "o", "r", "e", "a", "c", "h">>,
     <<"w", "h", "i", "l", "e">>,
     <<"m", "a", "c", "r", "o">>,
     <<"f", "u", "n", "c", "t", "i", "o", "n">>}

\* self.indent * n
Indent(n) == Flatten([k \in 1..n |-> indent])

\* str.rstrip()
RECURSIVE rstrip(_)
rstrip(line) ==
    IF line # <<>> /\ line[Len(line)] \in Whitespace
    THEN rstrip(SubSeq(line, 1, Len(line) - 1))
    ELSE line

\* str.isspace()
isspace(str) == str # <<>> /\ \A k \in DOMAIN str : str[k] \in Whitespace

\* the loop of _strip_line: right-strip every line, drop the leading empty ones
RECURSIVE StripLeading(_, _)
StripLeading(lines, ret) ==
    IF lines = <<>> THEN ret
    ELSE LET line == rstrip(Head(lines))
         IN  IF line # <<>> \/ Len(ret) > 0
             THEN StripLeading(Tail(lines), Append(ret, line))
             ELSE StripLeading(Tail(lines), ret)

\* while ret and ret[-1] == '': del ret[-1]
RECURSIVE StripTrailing(_)
StripTrailing(ret) ==
    IF ret # <<>> /\ ret[Len(ret)] = <<>>
    THEN StripTrailing(SubSeq(ret, 1, Len(ret) - 1))
    ELSE ret

\* a mutation of strip_line: the empty lines at the end are kept
strip_line_leading(lines) == StripLeading(lines, <<>>)

\* Formatter._strip_line
strip_line(lines) == StripTrailing(StripLeading(lines, <<>>))

\* lines[-1] += str
AddToLast(lines, str) == [lines EXCEPT ![Len(lines)] = @ \o str]

\* the loop of Formatter._format_args from index i on
RECURSIVE FormatArgsFrom(_, _, _)
FormatArgsFrom(args, i, lines) ==
    IF i > Len(args) THEN lines
    ELSE LET arg == args[i]
         IN  IF arg[1] = "#" THEN FormatArgsFrom(args, i + 1, AddToLast(lines, arg))
             ELSE IF arg[1] = NL THEN FormatArgsFrom(args, i + 1, Append(lines, <<>>))
             ELSE IF isspace(arg)
                  THEN IF lines[Len(lines)] = <<>>
                       THEN FormatArgsFrom(args, i + 1, lines)
                       ELSE IF i + 1 <= Len(args) /\ args[i + 1][1] = "#"
                            THEN FormatArgsFrom(args, i + 1, AddToLast(lines, arg))
                            ELSE FormatArgsFrom(args, i + 1, AddToLast(lines, <<" ">>))
             ELSE FormatArgsFrom(args, i + 1, AddToLast(lines, arg))

\* a mutation of format_args: the lines are returned as the loop built them
format_args_unstripped(args) == FormatArgsFrom(args, 1, <<(<<>>)>>)

\* Formatter._format_args
format_args(args) == strip_line(FormatArgsFrom(args, 1, <<(<<>>)>>))

\* a mutation of CommandText: every command is rendered on one line
CommandTextOneLine(token, lv) ==
    Indent(lv) \o lower(token.text) \o <<"(">> \o Flatten(format_args(token.args)) \o <<")">>

\* the text one command token is rendered as, at indent level lv
CommandText(token, lv) ==
    LET name == IF lower_identifier THEN lower(token.text) ELSE token.text
        args == format_args(token.args)
    IN  IF Len(args) < 2
        THEN Indent(lv) \o name \o <<"(">> \o Flatten(args) \o <<")">>
        ELSE Indent(lv) \o name \o <<"(", NL>>
             \o Flatten([k \in DOMAIN args |-> Indent(lv + 1) \o args[k] \o <<NL>>])
             \o Indent(lv) \o <<")">>

\* a mutation of LevelBefore: the level goes below 0
LevelBeforeUnfloored(token, level) ==
    IF lower(token.text) \in DeindentKeywords THEN level - 1 ELSE level

\* indent level a command line is emitted at
LevelBefore(token, level) ==
    IF lower(token.text) \in DeindentKeywords /\ level > 0 THEN level - 1 ELSE level

\* indent level after a command line
LevelAfter(token, lv) ==
    IF lower(token.text) \in ReindentKeywords THEN lv + 1 ELSE lv

\* the loop of Formatter.format from token k on
RECURSIVE FormatFrom(_, _, _, _)
FormatFrom(toks, k, cmds, level) ==
    IF k > Len(toks) THEN cmds
    ELSE LET token == toks[k]
             last == cmds[Len(cmds)]
         IN  IF token.cmd
             THEN LET lv == LevelBefore(token, level)
                  IN  FormatFrom(toks, k + 1,
                                 [cmds EXCEPT ![Len(cmds)] = CommandText(token, lv)],
                                 LevelAfter(token, lv))
             ELSE IF token.text = <<NL>>
                  THEN FormatFrom(toks, k + 1, Append(cmds, <<>>), level)
             ELSE IF token.text[1] = "#"
                  THEN IF last # <<>>
                       THEN FormatFrom(toks, k + 1, AddToLast(cmds, token.text), level)
                       ELSE FormatFrom(toks, k + 1,
                                       AddToLast(cmds, Indent(level) \o token.text), level)
             ELSE IF last # <<>>
                  THEN FormatFrom(toks, k + 1, AddToLast(cmds, token.text), level)
             ELSE FormatFrom(toks, k + 1, cmds, level)

\* '\n'.join(cmds) + '\n'
JoinLines(cmds) ==
    Flatten([k \in DOMAIN cmds |-> IF k = 1 THEN cmds[k] ELSE <<NL>> \o cmds[k]]) \o <<NL>>

\* Formatter.format
format(toks) == JoinLines(strip_line(FormatFrom(toks, 1, <<(<<>>)>>, 0)))

-----------------------------------------------------------------------------
(* AST Mode: ast_grammar and the node classes of grammar.py *)

\* Results of the block rules: a match, a failure an alternative may recover
\* from (pp.ParseException), or a failure past an error stop
\* (pp.ParseSyntaxException), which no alternative and no repetition catches
AOk(p, t) == [ok |-> TRUE, fatal |-> FALSE, pos |-> p, toks |-> t]
AFail == [ok |-> FALSE, fatal |-> FALSE, pos |-> 0, toks |-> <<>>]
AFatal(p) == [ok |-> FALSE, fatal |-> TRUE, pos |-> p, toks |-> <<>>]
Soft(r) == [ok |-> r.ok, fatal |-> FALSE, pos |-> r.pos, toks |-> r.toks]

\* pp.And and pp.MatchFirst over such results
AJoin(r, q) ==
    IF r.fatal THEN r
    ELSE IF q.fatal THEN q
    ELSE IF r.ok /\ q.ok THEN AOk(q.pos, r.toks \o q.toks)
    ELSE AFail
AOrElse(r, q) == IF r.ok \/ r.fatal THEN r ELSE q

\* a mutation of Must: the expression after "-" fails like one after "+"
MustNot(q, p) == q

\* And._ErrorStop (the "-" operator): q is the match of an expression that
\* follows it, tried at p; its failure is a ParseSyntaxException
Must(q, p) == IF q.ok \/ q.fatal THEN q ELSE AFatal(p)

\* the Argument nodes: value is tokens[0], the text without the quotes, the
\* bracket opener and the close marker
ArgumentNode(type, value, i) == [type |-> type, value |-> value, loc |-> i - 1]

\* (bracket_open.suppress() + bracket_content).setParseAction(BracketArgument),
\* given the matches o of bracket_open and b of the whole argument at i
ast_bracket_argument(s, i, o, b) ==
    IF b.ok
    THEN Ok(b.pos, <<ArgumentNode("BracketArgument",
                                  SubSeq(s, o.pos, b.pos - Len(o.toks[1]) - 1), i)>>)
    ELSE Fail

\* pp.Combine(Suppress('"') + ZeroOrMore(quoted_element) + Suppress('"'))
\*   .setParseAction(QuotedArgument), given the match q of the argument at i
ast_quoted_argument(s, i, q) ==
    IF q.ok
    THEN Ok(q.pos, <<ArgumentNode("QuotedArgument", SubSeq(s, i + 1, q.pos - 2), i)>>)
    ELSE Fail

\* pp.Combine(pp.OneOrMore(unquoted_element)).setParseAction(UnquotedArgument)
ast_unquoted_argument(s, i, u) ==
    IF u.ok THEN Ok(u.pos, <<ArgumentNode("UnquotedArgument", u.toks[1], i)>>) ELSE Fail

\* argument = bracket_argument | quoted_argument | unquoted_argument
ast_argument(s, i) ==
    OrElse(ast_bracket_argument(s, i, bracket_open(s, i), bracket_argument(s, i)),
    OrElse(ast_quoted_argument(s, i, quoted_argument(s, i)),
           ast_unquoted_argument(s, i, unquoted_argument(s, i))))

\* pp.Suppress("(") + arguments + pp.Suppress(")") at i, given the match of
\* the inner arguments at i + 1
ast_paren_group(s, i, inner) ==
    IF At(s, i) = "(" /\ At(s, inner.pos) = ")" THEN Ok(inner.pos + 1, inner.toks) ELSE Fail

\* arguments << pp.ZeroOrMore(argument | line_ending.suppress()
\*     | space_plus.suppress() | Suppress("(") + arguments + Suppress(")"))
RECURSIVE ast_arguments(_, _), MoreAstArguments(_, _, _)
ast_arguments(s, i) ==
    MoreAstArguments(s, i,
        OrElse(ast_argument(s, i),
        OrElse(Suppress(line_ending(s, i)),
        OrElse(Suppress(space_plus(s, i)),
               IF At(s, i) = "(" THEN ast_paren_group(s, i, ast_arguments(s, i + 1))
               ELSE Fail))))

\* the repetition, after the match one of an alternative at i
MoreAstArguments(s, i, one) ==
    IF one.ok THEN Join(one, ast_arguments(s, one.pos)) ELSE Ok(i, <<>>)

\* ... + arguments (pp.Group(arguments)), after the match r
ThenGroupedAstArguments(s, r) ==
    IF r.ok THEN Join(r, Group(ast_arguments(s, r.pos))) ELSE Fail

\* ... + line_ending.suppress(), after the match r
ThenSuppressedLineEnding(s, r) ==
    IF r.ok THEN Join(r, Suppress(line_ending(s, r.pos))) ELSE Fail

\* block_keyword_strs
Kw ==
    [function |-> <<"f", "u", "n", "c", "t", "i", "o", "n">>,
     macro |-> <<"m", "a", "c", "r", "o">>,
     endfunction |-> <<"e", "n", "d", "f", "u", "n", "c", "t", "i", "o", "n">>,
     endmacro |-> <<"e", "n", "d", "m", "a", "c", "r", "o">>,
     if |-> <<"i", "f">>,
     elseif |-> <<"e", "l", "s", "e", "i", "f">>,
     endif |-> <<"e", "n", "d", "i", "f">>,
     foreach |-> <<"f", "o", "r", "e", "a", "c", "h">>,
     endforeach |-> <<"e", "n", "d", "f", "o", "r", "e", "a", "c", "h">>,
     while |-> <<"w", "h", "i", "l", "e">>,
     endwhile |-> <<"e", "n", "d", "w", "h", "i", "l", "e">>]
block_keyword_strs == {Kw[k] : k \in DOMAIN Kw}

\* pp.CaselessLiteral(lit): the text at i is lit in any case; the token is
\* lit as the grammar spells it
CaselessLiteral(s, i, lit) ==
    IF i + Len(lit) - 1 <= Len(s) /\ lower(SubSeq(s, i, i + Len(lit) - 1)) = lit
    THEN Ok(i + Len(lit), <<lit>>)
    ELSE Fail

\* block_keywords = pp.Or([pp.CaselessLiteral(lit) for lit in block_keyword_strs])
\* identifier = ~block_keywords + pp.Word(pp.alphas + "_", pp.alphanums + "_")
ast_identifier(s, i) ==
    IF \E lit \in block_keyword_strs : CaselessLiteral(s, i, lit).ok
    THEN Fail
    ELSE identifier(s, i)

\* The command nodes, built by the parse action of a rule from its match r
\* at i. CommandInvocation.assign_fields: identifier = tokens[0],
\* arguments = tokens[1]. CommandDeclarationStart.assign_fields:
\* name = tokens[1][0], arguments = tokens[1][1:]; without an argument it
\* raises IndexError, which the enclosing pp.MatchFirst takes as the failure
\* of its alternative
CommandNode(action, r, i) ==
    IF ~r.ok THEN Fail
    ELSE IF action # "CommandDeclarationStart"
    THEN Ok(r.pos, <<[type |-> action, identifier |-> r.toks[1],
                      arguments |-> r.toks[2], loc |-> i - 1]>>)
    ELSE IF r.toks[2] = <<>> THEN Fail
    ELSE Ok(r.pos, <<[type |-> action, identifier |-> r.toks[1],
                      name |-> Head(r.toks[2]), arguments |-> Tail(r.toks[2]),
                      loc |-> i - 1]>>)

\* (identifier + space_star.suppress() + PAREN_L + arguments + PAREN_R)
\*   .setParseAction(CommandInvocation)
ast_command_invocation(s, i) ==
    CommandNode("CommandInvocation",
        ThenPAREN_R(s,
            ThenGroupedAstArguments(s,
                ThenPAREN_L(s,
                    ThenSuppressedSpaceStar(s, ast_identifier(s, i))))),
        i)

\* make_keyword_parser(pp.CaselessLiteral(literal), action)
make_keyword_parser(s, i, literal, action) ==
    CommandNode(action,
        ThenPAREN_R(s,
            ThenGroupedAstArguments(s,
                ThenPAREN_L(s,
                    ThenSuppressedSpaceStar(s, CaselessLiteral(s, i, literal))))),
        i)

\* make_line_parser(invocation):
\*   space_star.suppress() + invocation + line_ending.suppress()
\* with the keyword parser of make_keyword_line_parser(literal, action)
make_keyword_line_parser(s, i, literal, action) ==
    ThenSuppressedLineEnding(s,
        make_keyword_parser(s, space_star(s, i).pos, literal, action))

\* space_star.suppress() + command_invocation + line_ending.suppress()
command_line(s, i) ==
    ThenSuppressedLineEnding(s, ast_command_invocation(s, space_star(s, i).pos))

\* pp.ZeroOrMore(block), defined below with block
RECURSIVE blocks(_, _)

\* ... - pp.ZeroOrMore(block), after the match r: the repetition itself
\* never fails, a failure inside it past an error stop comes through
ThenBlocks(s, r) == IF r.ok THEN AJoin(r, blocks(s, r.pos)) ELSE r

\* ... - make_keyword_line_parser(literal, action), after the match r
ThenMustLine(s, r, literal, action) ==
    IF r.ok
    THEN AJoin(r, Must(Soft(make_keyword_line_parser(s, r.pos, literal, action)), r.pos))
    ELSE r

\* start - pp.ZeroOrMore(block) - end, for the keyword lines start and end
start_blocks_end(s, i, start, startAction, end, endAction) ==
    ThenMustLine(s,
        ThenBlocks(s, Soft(make_keyword_line_parser(s, i, start, startAction))),
        end, endAction)

\* CommandDeclarationBlock.assign_fields and LoopBlock.assign_fields:
\* declaration = tokens[0], children = tokens[1:-1], end = tokens[-1]
BlockNode(action, r, i) ==
    IF ~r.ok THEN r
    ELSE AOk(r.pos, <<[type |-> action, declaration |-> r.toks[1],
                       children |-> SubSeq(r.toks, 2, Len(r.toks) - 1),
                       end |-> r.toks[Len(r.toks)], loc |-> i - 1]>>)

\* command_decl_block =
\*   ((function_decl_start - pp.ZeroOrMore(block) - function_decl_end)
\*    | (macro_decl_start - pp.ZeroOrMore(block) - macro_decl_end))
\*   .setParseAction(CommandDeclarationBlock)
command_decl_block(s, i) ==
    BlockNode("CommandDeclarationBlock",
        AOrElse(start_blocks_end(s, i, Kw.function, "CommandDeclarationStart",
                                 Kw.endfunction, "CommandDeclarationEnd"),
                start_blocks_end(s, i, Kw.macro, "CommandDeclarationStart",
                                 Kw.endmacro, "CommandDeclarationEnd")),
        i)

\* ConditionalBranch.assign_fields: declaration = tokens[0], children = tokens[1:]
ConditionalBranchNode(r, i) ==
    IF ~r.ok THEN r
    ELSE AOk(r.pos, <<[type |-> "ConditionalBranch", declaration |-> r.toks[1],
                       children |-> Tail(r.toks), loc |-> i - 1]>>)

\* (if_line - pp.ZeroOrMore(block)).setParseAction(ConditionalBranch), and
\* the same with elseif_line
conditional_branch(s, i, literal) ==
    ConditionalBranchNode(
        ThenBlocks(s, Soft(make_keyword_line_parser(s, i, literal,
                                                    "ConditionalBranchDeclaration"))),
        i)

\* pp.ZeroOrMore((elseif_line - pp.ZeroOrMore(block))
\*                 .setParseAction(ConditionalBranch))
RECURSIVE elseif_branches(_, _), MoreElseifBranches(_, _, _)
elseif_branches(s, i) == MoreElseifBranches(s, i, conditional_branch(s, i, Kw.elseif))

\* the repetition, after the match one of a branch at i
MoreElseifBranches(s, i, one) ==
    IF one.fatal THEN one
    ELSE IF one.ok THEN AJoin(one, elseif_branches(s, one.pos))
    ELSE AOk(i, <<>>)

\* ... - pp.ZeroOrMore(elseif branch), after the match r
ThenElseifBranches(s, r) == IF r.ok THEN AJoin(r, elseif_branches(s, r.pos)) ELSE r

\* ConditionalBlock.assign_fields: branches = tokens[:-1], end = tokens[-1]
ConditionalBlockNode(r, i) ==
    IF ~r.ok THEN r
    ELSE AOk(r.pos, <<[type |-> "ConditionalBlock",
                       branches |-> SubSeq(r.toks, 1, Len(r.toks) - 1),
                       end |-> r.toks[Len(r.toks)], loc |-> i - 1]>>)

\* conditional_block = (if branch - ZeroOrMore(elseif branch) - endif_line)
\*   .setParseAction(ConditionalBlock)
conditional_block(s, i) ==
    ConditionalBlockNode(
        ThenMustLine(s, ThenElseifBranches(s, conditional_branch(s, i, Kw.if)),
                     Kw.endif, "ConditionalEnd"),
        i)

\* loop_block = ((foreach_start - pp.ZeroOrMore(block) - foreach_end)
\*               | (while_end - pp.ZeroOrMore(block) - while_end))
\*   .setParseAction(LoopBlock): the second alternative starts with
\* while_end, the line parser of "endwhile" that builds a LoopEnd
loop_block(s, i) ==
    BlockNode("LoopBlock",
        AOrElse(start_blocks_end(s, i, Kw.foreach, "LoopDeclaration",
                                 Kw.endforeach, "LoopEnd"),
                start_blocks_end(s, i, Kw.endwhile, "LoopEnd",
                                 Kw.endwhile, "LoopEnd")),
        i)

\* block <<= (command_decl_block | conditional_block | loop_block
\*   | space_star.suppress() + command_invocation + line_ending.suppress()
\*   | line_ending.suppress())
block(s, i) ==
    AOrElse(command_decl_block(s, i),
    AOrElse(conditional_block(s, i),
    AOrElse(loop_block(s, i),
    AOrElse(Soft(command_line(s, i)),
            Soft(Suppress(line_ending(s, i)))))))

\* the repetition, after the match one of block at i
MoreBlocks(s, i, one) ==
    IF one.fatal THEN one
    ELSE IF one.ok THEN AJoin(one, blocks(s, one.pos))
    ELSE AOk(i, <<>>)

blocks(s, i) == MoreBlocks(s, i, block(s, i))

\* listsfile = pp.ZeroOrMore(block).setParseAction(ListsFile), matched at
\* the start of the text: the tree (ListsFile.assign_fields: blocks =
\* tokens.asList()) and the text it leaves, or the failure past an error stop
listsfile(liststr) ==
    LET r == blocks(liststr, 1)
    IN  IF r.fatal
        THEN [fatal |-> TRUE, tree |-> [type |-> "ListsFile", blocks |-> <<>>, loc |-> 0],
              remain |-> <<>>, at |-> r.pos - 1]
        ELSE [fatal |-> FALSE, tree |-> [type |-> "ListsFile", blocks |-> r.toks, loc |-> 0],
              remain |-> From(liststr, r.pos), at |-> r.pos - 1]

-----------------------------------------------------------------------------
(* The visitors of diagnostics.py *)

CommandTypes ==
    {"CommandInvocation", "CommandDeclarationStart", "CommandDeclarationEnd",
     "ConditionalBranchDeclaration", "ConditionalEnd", "LoopDeclaration", "LoopEnd"}

\* The nodes in the order in which node.visit(visitor) hands them to
\* visitor.visit, by the visit method of each node class
RECURSIVE Visit(_), VisitEach(_)
Visit(node) ==
    CASE node.type = "ListsFile" ->
           <<node>> \o VisitEach(node.blocks)
      [] node.type = "CommandDeclarationBlock" ->
           <<node>> \o VisitEach(node.children)
      [] node.type = "ConditionalBranch" ->
           <<node>> \o VisitEach(node.children)
      [] node.type = "ConditionalBlock" ->
           <<node>> \o VisitEach(node.branches) \o Visit(node.end)
      [] node.type = "LoopBlock" ->
           <<node>> \o Visit(node.declaration) \o VisitEach(node.children)
                    \o Visit(node.end)
      [] node.type = "CommandDeclarationStart" ->
           <<node>> \o Visit(node.name) \o VisitEach(node.arguments)
      [] node.type \in CommandTypes \ {"CommandDeclarationStart"} ->
           <<node>> \o VisitEach(node.arguments)
      [] OTHER -> <<node>>

\* for child in children: child.visit(visitor)
VisitEach(children) ==
    IF children = <<>> THEN <<>>
    ELSE Visit(Head(children)) \o VisitEach(Tail(children))

\* a mutation of Mro: the visitor dispatches on the class of the node only
MroSelf(type) == <<type>>

\* DiagnosticVisitor.visit: the names of the classes of type(node).mro()
\* that are not classes of ASTNode.mro(), the most specific first
Mro(type) ==
    IF type = "CommandInvocation" THEN <<"CommandInvocation">>
    ELSE IF type \in CommandTypes THEN <<type, "CommandInvocation">>
    ELSE IF type \in {"UnquotedArgument", "QuotedArgument", "BracketArgument"}
    THEN <<type, "Argument">>
    ELSE <<type>>

\* the fields a visitor class starts with
NewVisitor(rule) ==
    IF rule = "OrphanedLoopCommand" THEN [loop_counter |-> 0, diagnostics |-> <<>>]
    ELSE IF rule = "ReturnInMacro" THEN [macro_counter |-> 0, diagnostics |-> <<>>]
    ELSE [diagnostics |-> <<>>]

\* self.diagnostics.append(maybe_diagnostic), for the Diagnostic a handler
\* of the rule returns: its range starts at the loc of the node
Report(v, rule, node) ==
    [v EXCEPT !.diagnostics = Append(@, [rule |-> rule, loc |-> node.loc])]

BreakContinue == {<<"b", "r", "e", "a", "k">>, <<"c", "o", "n", "t", "i", "n", "u", "e">>}

\* a mutation of OrphanedLoopCommand: a loop declaration is not counted
OrphanedLoopCommandUncounted(v, cls, node) ==
    IF cls = "LoopEnd" THEN [v EXCEPT !.loop_counter = @ - 1]
    ELSE IF cls = "CommandInvocation"
    THEN IF lower(node.identifier) \notin BreakContinue THEN v
         ELSE IF v.loop_counter > 0 THEN v
         ELSE Report(v, "OrphanedLoopCommand", node)
    ELSE v

\* a mutation of OrphanedLoopCommand: a loop end is not counted
OrphanedLoopCommandUnended(v, cls, node) ==
    IF cls = "LoopDeclaration" THEN [v EXCEPT !.loop_counter = @ + 1]
    ELSE IF cls = "CommandInvocation"
    THEN IF lower(node.identifier) \notin BreakContinue THEN v
         ELSE IF v.loop_counter > 0 THEN v
         ELSE Report(v, "OrphanedLoopCommand", node)
    ELSE v

\* OrphanedLoopCommand: the handler visit_<cls> applied to node, in the
\* state v of the visitor
OrphanedLoopCommand(v, cls, node) ==
    IF cls = "LoopDeclaration" THEN [v EXCEPT !.loop_counter = @ + 1]
    ELSE IF cls = "LoopEnd" THEN [v EXCEPT !.loop_counter = @ - 1]
    ELSE IF cls = "CommandInvocation"
    THEN IF lower(node.identifier) \notin BreakContinue THEN v
         ELSE IF v.loop_counter > 0 THEN v
         ELSE Report(v, "OrphanedLoopCommand", node)
    ELSE v

\* ReturnInMacro
ReturnInMacro(v, cls, node) ==
    IF cls = "CommandDeclarationStart"
    THEN IF lower(node.identifier) = Kw.macro
         THEN [v EXCEPT !.macro_counter = @ + 1] ELSE v
    ELSE IF cls = "CommandDeclarationEnd"
    THEN IF lower(node.identifier) = Kw.endmacro
         THEN [v EXCEPT !.macro_counter = @ - 1] ELSE v
    ELSE IF cls = "CommandInvocation"
    THEN IF lower(node.identifier) # <<"r", "e", "t", "u", "r", "n">> THEN v
         ELSE IF v.macro_counter < 0 THEN v
         ELSE Report(v, "ReturnInMacro", node)
    ELSE v

\* rhs.strip("${}")
RECURSIVE StripChars(_, _)
StripChars(str, C) ==
    IF str = <<>> THEN str
    ELSE IF Head(str) \in C THEN StripChars(Tail(str), C)
    ELSE IF str[Len(str)] \in C THEN StripChars(SubSeq(str, 1, Len(str) - 1), C)
    ELSE str

\* rhs.count("$")
CountChar(str, c) == Cardinality({k \in DOMAIN str : str[k] = c})

\* RedundantAssignment
RedundantAssignment(v, cls, node) ==
    IF cls # "CommandInvocation" THEN v
    ELSE IF lower(node.identifier) # <<"s", "e", "t">> THEN v
    ELSE IF Len(node.arguments) # 2 THEN v
    ELSE IF CountChar(node.arguments[2].value, "$") # 1 THEN v
    ELSE IF node.arguments[1].value # StripChars(node.arguments[2].value, {"$", "{", "}"})
    THEN v
    ELSE Report(v, "RedundantAssignment", node)

\* all(m.value == n.value for m, n in zip(a.declaration.arguments,
\*                                        b.declaration.arguments))
all_args_match(a, b) ==
    \A k \in DOMAIN a.declaration.arguments \cap DOMAIN b.declaration.arguments :
        a.declaration.arguments[k].value = b.declaration.arguments[k].value

\* combinations(node.branches, 2), in the order itertools yields them
Combinations2(n) ==
    LET Pairs == {p \in (1..n) \X (1..n) : p[1] < p[2]}
        Before(p, q) == p[1] < q[1] \/ (p[1] = q[1] /\ p[2] < q[2])
    IN  [k \in 1..Cardinality(Pairs) |->
            CHOOSE p \in Pairs : Cardinality({q \in Pairs : Before(q, p)}) = k - 1]

\* DuplicateBranch: the first pair of branches whose conditions match marks
\* its second branch
DuplicateBranch(v, cls, node) ==
    IF cls # "ConditionalBlock" THEN v
    ELSE LET pairs == Combinations2(Len(node.branches))
             hits == {k \in DOMAIN pairs :
                        all_args_match(node.branches[pairs[k][1]],
                                       node.branches[pairs[k][2]])}
         IN  IF hits = {} THEN v
             ELSE Report(v, "DuplicateBranch",
                         node.branches[pairs[CHOOSE k \in hits :
                                                \A j \in hits : k <= j][2]])

\* ModernizeLowercaseCommands; node.identifier.isupper(): a cased
\* character, and no lower-case one
ModernizeLowercaseCommands(v, cls, node) ==
    IF /\ cls = "CommandInvocation"
       /\ \E k \in DOMAIN node.identifier : node.identifier[k] \in Range(UpperSeq)
       /\ \A k \in DOMAIN node.identifier : node.identifier[k] \notin Range(LowerSeq)
    THEN Report(v, "ModernizeLowercaseCommands", node)
    ELSE v

\* ModernizePreferTargetCmds.dir_api
dir_api ==
    {<<"a", "d", "d", "_", "d", "e", "f", "i", "n", "i", "t", "i", "o", "n", "s">>,
     <<"a", "d", "d", "_", "c", "o", "m", "p", "i", "l", "e", "_", "o", "p", "t", "i", "o", "n", "s">>,
     <<"a", "d", "d", "_", "c", "o", "m", "p", "i", "l", "e", "_", "d", "e", "f", "i", "n", "i", "t", "i", "o", "n", "s">>,
     <<"i", "n", "c", "l", "u", "d", "e", "_", "d", "i", "r", "e", "c", "t", "o", "r", "i", "e", "s">>,
     <<"l", "i", "n", "k", "_", "l", "i", "b", "r", "a", "r", "i", "e", "s">>}

\* ModernizePreferTargetCmds
ModernizePreferTargetCmds(v, cls, node) ==
    IF cls = "CommandInvocation" /\ lower(node.identifier) \in dir_api
    THEN Report(v, "ModernizePreferTargetCmds", node)
    ELSE v

\* getattr(self, visit_fn_name)(node), for the visitor class rule; a class
\* without a handler of that name leaves its state as it is
Handler(rule, v, cls, node) ==
    CASE rule = "DuplicateBranch" -> DuplicateBranch(v, cls, node)
      [] rule = "ModernizeLowercaseCommands" -> ModernizeLowercaseCommands(v, cls, node)
      [] rule = "ModernizePreferTargetCmds" -> ModernizePreferTargetCmds(v, cls, node)
      [] rule = "OrphanedLoopCommand" -> OrphanedLoopCommand(v, cls, node)
      [] rule = "RedundantAssignment" -> RedundantAssignment(v, cls, node)
      [] rule = "ReturnInMacro" -> ReturnInMacro(v, cls, node)

\* DiagnosticVisitor.visit(node): the handlers of the classes of Mro in order
RECURSIVE DiagnosticVisitor_visit(_, _, _, _)
DiagnosticVisitor_visit(rule, v, classes, node) ==
    IF classes = <<>> THEN v
    ELSE DiagnosticVisitor_visit(rule, Handler(rule, v, Head(classes), node),
                                 Tail(classes), node)

\* the visitor over the nodes of a traversal
RECURSIVE VisitNodes(_, _, _)
VisitNodes(rule, v, nodes) ==
    IF nodes = <<>> THEN v
    ELSE VisitNodes(rule,
                    DiagnosticVisitor_visit(rule, v, Mro(Head(nodes).type), Head(nodes)),
                    Tail(nodes))

\* visitor = visitor_class(liststr); ast[0].visit(visitor)
RunVisitor(rule, tree) == VisitNodes(rule, NewVisitor(rule), Visit(tree))

\* the visitors list of diagnose
visitors ==
    <<"DuplicateBranch", "ModernizeLowercaseCommands", "ModernizePreferTargetCmds",
      "OrphanedLoopCommand", "RedundantAssignment", "ReturnInMacro">>

\* diagnose(ast, liststr): the diagnostics of each visitor, in that order
RECURSIVE DiagnoseFrom(_, _)
DiagnoseFrom(k, tree) ==
    IF k > Len(visitors) THEN <<>>
    ELSE RunVisitor(visitors[k], tree).diagnostics \o DiagnoseFrom(k + 1, tree)
diagnose(tree) == DiagnoseFrom(1, tree)

-----------------------------------------------------------------------------
(* Input texts: concatenations of at most n lexemes *)

TextsOf(L, n) == UNION {{Flatten(f) : f \in [1..k -> L]} : k \in 0..n}

\* Spec: identifiers, parentheses, white space, comments
MaxPieces == 4

\* SpecIdem: arguments with escapes, over several lines
MaxIdemPieces == 5

\* SpecBracket: bracket arguments and bracket comments of fence length 0 and 1
MaxBracketPieces == 4

\* SpecParen: nested parenthesised groups
MaxParenPieces == 6

\* SpecShared: the calls on one parser, and the pieces after the opener of
\* the bracket argument of each
MaxCalls == 2
MaxCallPieces == 2

\* SpecRefresh: the runs of run_cmake, the requests, and the targets and
\* cache entries of a reply
MaxRuns == 2
MaxRequests == 1
MaxEntries == 2

\* SpecKeyword: commands whose names begin with a block keyword
MaxKeywordLines == 3

\* SpecFault: lines with a finding of each of three rules
MaxFaultLines == 3

\* a recursion depth that the texts of SpecParen exceed
RecursionGuard == 2

\* SpecDecl: lines that declare and end functions and macros, among others
MaxDeclLines == 4

\* SpecLoop: lines that open and end loops, and loop commands
MaxLoopLines == 5

\* SpecCond: lines of conditionals
MaxCondLines == 5

\* SpecRules: lines of set commands and of conditionals with conditions
MaxRuleLines == 4

\* SpecIndent: lines of conditionals, commands and comments
MaxIndentLines == 4

\* SpecBatch: the number of list files of a run
MaxFiles == 3

\* SpecArgs: what follows the "(" of one command: arguments, white space,
\* newlines, comments and the ")"
MaxArgPieces == 5

-----------------------------------------------------------------------------
(* formatter.main on one list file *)

\* main is at the first of the list files fs
InitLists(fs) ==
    /\ pc = "start"
    /\ mode \in {"stdout", "inplace", "diff"}
    /\ pass = 1
    /\ lists = fs
    /\ disk = <<>>
    /\ file = fs[1]
    /\ content = <<>>
    /\ tokens = <<>>
    /\ remain = <<>>
    /\ formatted = <<>>
    /\ stdout = <<>>
    /\ writes = 0
    /\ first = <<>>
    /\ ast = <<>>
    /\ diags = <<>>
    /\ reply = [result |-> "pending", edits |-> <<>>]
    /\ shown = <<>>
    /\ bracket_forward = <<>>
    /\ calls = <<>>
    /\ query_json = [directory |-> FALSE, file |-> FALSE]
    /\ targets = <<>>
    /\ cached_variables = {}
    /\ runs = <<>>
    /\ requests = <<>>

Init ==
    \E text \in TextsOf(
        {<<"a", "(">>, <<")">>, <<"a">>, <<"(">>, <<" ">>, <<NL>>, <<"#">>, <<TAB>>},
        MaxPieces) : InitLists(<<text>>)

\* with listpath.open() as fp: content = fp.read()
Read ==
    /\ pc = "start"
    /\ content' = file
    /\ pc' = "read"
    /\ UNCHANGED <<lists, disk, mode, pass, file, tokens, remain, formatted,
                   stdout, writes, first, ast, diags, reply, shown>>
    /\ UNCHANGED <<bracket_forward, calls, query_json, targets, cached_variables,
                   runs, requests>>

\* tokens, remain = list_parser.parse(content)
Parse ==
    /\ pc = "read"
    /\ LET r == parse(content)
       IN  /\ tokens' = r.tokens
           /\ remain' = r.remain
    /\ pc' = "parsed"
    /\ UNCHANGED <<lists, disk, mode, pass, file, content, formatted, stdout,
                   writes, first, ast, diags, reply, shown>>
    /\ UNCHANGED <<bracket_forward, calls, query_json, targets, cached_variables,
                   runs, requests>>

\* a mutation of Formatted: the tokens are formatted whatever the remainder
FormattedAlways(c, t, r) == format(t)

\* formatted = content if remain else formatter.format(tokens)
Formatted(c, t, r) == IF r # <<>> THEN c ELSE format(t)

Format ==
    /\ pc = "parsed"
    /\ formatted' = Formatted(content, tokens, remain)
    /\ pc' = "formatted"
    /\ UNCHANGED <<lists, disk, mode, pass, file, content, tokens, remain,
                   stdout, writes, first, ast, diags, reply, shown>>
    /\ UNCHANGED <<bracket_forward, calls, query_json, targets, cached_variables,
                   runs, requests>>

\* the if args.inplace / elif args.diff / else of main; a unified diff of
\* equal texts is empty and prints nothing
Output ==
    /\ pc = "formatted"
    /\ IF mode = "inplace"
       THEN /\ IF remain = <<>>
               THEN file' = formatted /\ writes' = writes + 1
               ELSE UNCHANGED <<file, writes>>
            /\ UNCHANGED stdout
       ELSE IF mode = "diff"
       THEN /\ stdout' = IF content = formatted THEN stdout
                         ELSE Append(stdout, [diff |-> TRUE, old |-> content,
                                              new |-> formatted])
            /\ UNCHANGED <<file, writes>>
       ELSE /\ stdout' = Append(stdout, [diff |-> FALSE, old |-> <<>>,
                                         new |-> formatted])
            /\ UNCHANGED <<file, writes>>
    /\ pc' = "done"
    /\ UNCHANGED <<lists, disk, mode, pass, content, tokens, remain, formatted,
                   first, ast, diags, reply, shown>>
    /\ UNCHANGED <<bracket_forward, calls, query_json, targets, cached_variables,
                   runs, requests>>

\* the formatter is run again on what the first run produced: on the
\* rewritten file, or on the printed text saved as the list file
Rerun ==
    /\ pc = "done"
    /\ pass = 1
    /\ mode # "diff"
    /\ pass' = 2
    /\ first' = formatted
    /\ file' = IF mode = "stdout" THEN stdout[Len(stdout)].new ELSE file
    /\ stdout' = <<>>
    /\ writes' = 0
    /\ pc' = "start"
    /\ UNCHANGED <<lists, disk, mode, content, tokens, remain, formatted, ast,
                   diags, reply, shown>>
    /\ UNCHANGED <<bracket_forward, calls, query_json, targets, cached_variables,
                   runs, requests>>

Next == Read \/ Parse \/ Format \/ Output \/ Rerun

\* a mutation of NextList: the loop goes on with the last of the list files
NextListLast ==
    /\ pc = "done"
    /\ Len(disk) + 1 < Len(lists)
    /\ disk' = Append(disk, file)
    /\ file' = lists[Len(lists)]
    /\ pc' = "start"
    /\ UNCHANGED <<mode, pass, lists, content, tokens, remain, formatted,
                   stdout, writes, first, ast, diags, reply, shown>>
    /\ UNCHANGED <<bracket_forward, calls, query_json, targets, cached_variables,
                   runs, requests>>

\* for listpath in args.lists: the loop goes on with the next list file
NextList ==
    /\ pc = "done"
    /\ Len(disk) + 1 < Len(lists)
    /\ disk' = Append(disk, file)
    /\ file' = lists[Len(disk) + 2]
    /\ pc' = "start"
    /\ UNCHANGED <<mode, pass, lists, content, tokens, remain, formatted,
                   stdout, writes, first, ast, diags, reply, shown>>
    /\ UNCHANGED <<bracket_forward, calls, query_json, targets, cached_variables,
                   runs, requests>>

Spec == Init /\ [][Next]_vars

SpecIdem ==
    /\ \E text \in TextsOf(
        {<<"a", "(">>, <<")">>, <<"b">>, <<NL>>, <<BSL, " ">>},
        MaxIdemPieces) : InitLists(<<text>>)
    /\ [][Next]_vars

SpecBracket ==
    /\ \E text \in TextsOf(
        {<<"#", "[", "[">>, <<"#", "[", "=", "[">>, <<"[", "[">>, <<"[", "=", "[">>,
         <<"]", "]">>, <<"]", "=", "]">>, <<"a", "(">>, <<")">>},
        MaxBracketPieces) : InitLists(<<text>>)
    /\ [][Next]_vars

SpecParen ==
    /\ \E text \in TextsOf(
        {<<"a", "(">>, <<"(">>, <<")">>, <<"b">>},
        MaxParenPieces) : InitLists(<<text>>)
    /\ [][Next]_vars

SpecIndent ==
    /\ \E text \in TextsOf(
        {<<"i", "f", "(", ")", NL>>,
         <<"E", "L", "S", "E", "(", ")", NL>>,
         <<"e", "n", "d", "i", "f", "(", ")", NL>>,
         <<"a", "(", ")", NL>>,
         <<"#", "c", NL>>},
        MaxIndentLines) : InitLists(<<text>>)
    /\ [][Next]_vars

SpecArgs ==
    /\ \E text \in TextsOf({<<"b">>, <<" ", " ">>, <<NL>>, <<"#">>, <<")">>}, MaxArgPieces) :
          InitLists(<<(<<"A", "(">> \o text)>>)
    /\ [][Next]_vars

SpecBatch ==
    /\ \E n \in 1..MaxFiles :
          \E fs \in [1..n -> {<<"A", "(", " ", ")", NL>>, <<"b", "(", ")">>,
                               <<"a", "(">>, <<NL, ")">>}] : InitLists(fs)
    /\ [][Read \/ Parse \/ Format \/ Output \/ NextList]_vars

\* A text handed to AST Mode, or the source of the document of a request
InitAstWith(text) ==
    /\ pc = "source"
    /\ mode = "stdout"
    /\ pass = 1
    /\ lists = <<>>
    /\ disk = <<>>
    /\ file = <<>>
    /\ content = text
    /\ tokens = <<>>
    /\ remain = <<>>
    /\ formatted = <<>>
    /\ stdout = <<>>
    /\ writes = 0
    /\ first = <<>>
    /\ ast = <<>>
    /\ diags = <<>>
    /\ reply = [result |-> "pending", edits |-> <<>>]
    /\ shown = <<>>
    /\ bracket_forward = <<>>
    /\ calls = <<>>
    /\ query_json = [directory |-> FALSE, file |-> FALSE]
    /\ targets = <<>>
    /\ cached_variables = {}
    /\ runs = <<>>
    /\ requests = <<>>

\* the grammar ast_grammar() returns, matched at the start of the text
ParseAst ==
    /\ pc = "source"
    /\ ast' = listsfile(content)
    /\ pc' = IF ast'.fatal THEN "failed" ELSE "tree"
    /\ UNCHANGED <<lists, disk, mode, pass, file, content, tokens, remain,
                   formatted, stdout, writes, first, diags, reply, shown>>
    /\ UNCHANGED <<bracket_forward, calls, query_json, targets, cached_variables,
                   runs, requests>>

\* diagnose(ast, liststr)
Diagnose ==
    /\ pc = "tree"
    /\ diags' = diagnose(ast.tree)
    /\ pc' = "diagnosed"
    /\ UNCHANGED <<lists, disk, mode, pass, file, content, tokens, remain,
                   formatted, stdout, writes, first, ast, reply, shown>>
    /\ UNCHANGED <<bracket_forward, calls, query_json, targets, cached_variables,
                   runs, requests>>

NextAst == ParseAst \/ Diagnose

\* diagnose(ast, liststr) when the pass of one of its visitors raises (the
\* interpreter runs out of stack or of memory inside ast[0].visit(visitor)):
\* the loop over the visitors has no try statement, the exception leaves
\* diagnose and the diagnostics list of the call is lost
DiagnoseRaises ==
    /\ pc = "tree"
    /\ \E k \in DOMAIN visitors :
        /\ diags' = <<>>
        /\ pc' = "raised"
    /\ UNCHANGED <<lists, disk, mode, pass, file, content, tokens, remain,
                   formatted, stdout, writes, first, ast, reply, shown>>
    /\ UNCHANGED <<bracket_forward, calls, query_json, targets, cached_variables,
                   runs, requests>>

\* a mutation of formatting: the tokens are formatted whatever the remainder
formatting_unchecked ==
    /\ pc = "source"
    /\ tokens' = parse(content).tokens
    /\ remain' = parse(content).remain
    /\ formatted' = format(tokens')
    /\ reply' = [result |-> "edits",
                 edits |-> <<[range |-> [start |-> [line |-> 0, character |-> 0],
                                         end |-> [line |-> CountChar(content, NL) + 1,
                                                  character |-> 0]],
                              new_text |-> formatted']>>]
    /\ pc' = "replied"
    /\ UNCHANGED <<mode, pass, lists, disk, file, content, stdout, writes, first,
                   ast, diags, shown>>
    /\ UNCHANGED <<bracket_forward, calls, query_json, targets, cached_variables,
                   runs, requests>>

\* CMakeLanguageServer.formatting, on the document doc.source = content
formatting ==
    /\ pc = "source"
    /\ tokens' = parse(content).tokens
    /\ remain' = parse(content).remain
    /\ IF remain' # <<>>
       THEN /\ shown' = Append(shown, "CMake parser failed")
            /\ reply' = [result |-> "None", edits |-> <<>>]
            /\ UNCHANGED formatted
       ELSE /\ formatted' = format(tokens')
            /\ reply' = [result |-> "edits",
                         edits |-> <<[range |-> [start |-> [line |-> 0, character |-> 0],
                                                 end |-> [line |-> CountChar(content, NL) + 1,
                                                          character |-> 0]],
                                      new_text |-> formatted']>>]
            /\ UNCHANGED shown
    /\ pc' = "replied"
    /\ UNCHANGED <<mode, pass, lists, disk, file, content, stdout, writes, first,
                   ast, diags>>
    /\ UNCHANGED <<bracket_forward, calls, query_json, targets, cached_variables,
                   runs, requests>>

SpecServer ==
    /\ \E text \in TextsOf(
        {<<"a", "(">>, <<")">>, <<"a">>, <<"(">>, <<" ">>, <<NL>>, <<"#">>, <<TAB>>},
        MaxPieces) : InitAstWith(text)
    /\ [][formatting]_vars

-----------------------------------------------------------------------------
(* Calls of several workers on one ListParser *)

\* a worker calls parse(liststr) on the parser, with a command whose first
\* argument starts with a bracket opener.  The calls start before the first
\* of them reaches its opener (the start of a call touches nothing the calls
\* share); alone is what the call returns when no other call is under way
parse_call ==
    /\ Len(calls) < MaxCalls
    /\ bracket_forward = <<>>
    /\ \E opener \in {<<"[", "[">>, <<"[", "=", "[">>} :
        \E rest \in TextsOf({<<"b">>, <<"]", "]">>, <<"]", "=", "]">>}, MaxCallPieces) :
            calls' = Append(calls,
                [liststr |-> <<"a", "(">> \o opener \o rest \o <<")">>,
                 at |-> "start",
                 alone |-> parse(<<"a", "(">> \o opener \o rest \o <<")">>),
                 marker |-> <<>>,
                 result |-> [tokens |-> <<>>, remain |-> <<>>]])
    /\ UNCHANGED <<pc, mode, pass, lists, disk, file, content, tokens, remain,
                   formatted, stdout, writes, first, ast, diags, reply, shown,
                   bracket_forward, query_json, targets, cached_variables, runs,
                   requests>>

\* call w has matched the opener of its bracket argument: the parse action
\* action_bracket_open rebinds bracket_content of the parser to the close
\* marker of that opener
parse_bracket_open(w) ==
    /\ calls[w].at = "start"
    /\ bracket_forward' = action_bracket_open(bracket_open(calls[w].liststr, 3).toks[1])
    /\ calls' = [calls EXCEPT ![w].at = "opened"]
    /\ UNCHANGED <<pc, mode, pass, lists, disk, file, content, tokens, remain,
                   formatted, stdout, writes, first, ast, diags, reply, shown,
                   query_json, targets, cached_variables, runs, requests>>

\* call w goes on: bracket_content is matched as it is bound now, and the
\* call returns its tokens and its remainder
parse_bracket_content(w) ==
    /\ calls[w].at = "opened"
    /\ calls' = [calls EXCEPT ![w].at = "returned",
                              ![w].marker = bracket_forward,
                              ![w].result = parse(calls[w].liststr)]
    /\ UNCHANGED <<pc, mode, pass, lists, disk, file, content, tokens, remain,
                   formatted, stdout, writes, first, ast, diags, reply, shown,
                   bracket_forward, query_json, targets, cached_variables, runs,
                   requests>>

SpecShared ==
    /\ InitAstWith(<<>>)
    /\ [][\/ parse_call
          \/ \E w \in DOMAIN calls : parse_bracket_open(w)
          \/ \E w \in DOMAIN calls : parse_bracket_content(w)]_vars

-----------------------------------------------------------------------------
(* The refreshes of the build information and the requests that read it *)

\* run_cmake, a handler of INITIALIZED and of TEXT_DOCUMENT_DID_SAVE that
\* runs in a thread of its own: each notification starts one more run
run_cmake ==
    /\ Len(runs) < MaxRuns
    /\ runs' = Append(runs, [at |-> "query", returncode |-> 0, entries |-> <<>>,
                             before |-> {}, after |-> {}])
    /\ UNCHANGED <<pc, mode, pass, lists, disk, file, content, tokens, remain,
                   formatted, stdout, writes, first, ast, diags, reply, shown,
                   bracket_forward, calls, query_json, targets, cached_variables,
                   requests>>

\* API.query of run r, one step at a time.  Every run of one API names the
\* same query_json (the uuid is drawn once, in __init__), so the directory
\* and the file are shared by the runs
query(r) ==
    /\ \/ /\ runs[r].at = "query"
          /\ \E exists \in BOOLEAN :
                runs' = [runs EXCEPT ![r].at = IF exists THEN "mkdir" ELSE "returned"]
          /\ UNCHANGED query_json
       \/ /\ runs[r].at = "mkdir"
          /\ query_json' = [query_json EXCEPT !.directory = TRUE]
          /\ runs' = [runs EXCEPT ![r].at = "open"]
       \/ /\ runs[r].at = "open"
          /\ IF query_json.directory
             THEN /\ query_json' = [query_json EXCEPT !.file = TRUE]
                  /\ runs' = [runs EXCEPT ![r].at = "cmake"]
             ELSE /\ runs' = [runs EXCEPT ![r].at = "raised"]
                  /\ UNCHANGED query_json
       \/ /\ runs[r].at = "cmake"
          /\ runs' = [runs EXCEPT ![r].at = "running"]
          /\ UNCHANGED query_json
       \/ /\ runs[r].at = "running"
          /\ \E returncode \in {0, 1} :
                runs' = [runs EXCEPT ![r].at = "unlink", ![r].returncode = returncode]
          /\ UNCHANGED query_json
       \/ /\ runs[r].at = "unlink"
          /\ IF query_json.file
             THEN /\ query_json' = [query_json EXCEPT !.file = FALSE]
                  /\ runs' = [runs EXCEPT ![r].at = "rmdir"]
             ELSE /\ runs' = [runs EXCEPT ![r].at = "raised"]
                  /\ UNCHANGED query_json
       \/ /\ runs[r].at = "rmdir"
          /\ IF query_json.directory /\ ~query_json.file
             THEN /\ query_json' = [query_json EXCEPT !.directory = FALSE]
                  /\ runs' = [runs EXCEPT ![r].at =
                                 IF runs[r].returncode # 0 THEN "returned" ELSE "read_reply"]
             ELSE /\ runs' = [runs EXCEPT ![r].at = "raised"]
                  /\ UNCHANGED query_json
    /\ UNCHANGED <<pc, mode, pass, lists, disk, file, content, tokens, remain,
                   formatted, stdout, writes, first, ast, diags, reply, shown,
                   bracket_forward, calls, targets, cached_variables, requests>>

\* API.read_reply of run r with _read_codemodel and _read_cache, one step at
\* a time: the index that is read names no reply of this client, or it names
\* a codemodel with some targets and a cache with some entries; the targets
\* are stored by one slice assignment, the table of the cached variables is
\* cleared and then filled one entry after the other
read_reply(r) ==
    /\ \/ /\ runs[r].at = "read_reply"
          /\ \/ /\ runs' = [runs EXCEPT ![r].at = "returned"]
                /\ UNCHANGED targets
             \/ \E names \in TextsOf({<<"t">>, <<"u">>}, MaxEntries) :
                \E entries \in TextsOf({<<"A">>, <<"B">>}, MaxEntries) :
                    /\ targets' = names
                    /\ runs' = [runs EXCEPT ![r].at = "_read_cache",
                                            ![r].entries = entries,
                                            ![r].after = {entries[k] : k \in DOMAIN entries}]
          /\ UNCHANGED cached_variables
       \/ /\ runs[r].at = "_read_cache"
          /\ cached_variables' = {}
          /\ runs' = [runs EXCEPT ![r].at = "entry", ![r].before = cached_variables]
          /\ UNCHANGED targets
       \/ /\ runs[r].at = "entry"
          /\ IF runs[r].entries = <<>>
             THEN /\ runs' = [runs EXCEPT ![r].at = "returned"]
                  /\ UNCHANGED cached_variables
             ELSE /\ cached_variables' = cached_variables \cup {Head(runs[r].entries)}
                  /\ runs' = [runs EXCEPT ![r].entries = Tail(runs[r].entries)]
          /\ UNCHANGED targets
    /\ UNCHANGED <<pc, mode, pass, lists, disk, file, content, tokens, remain,
                   formatted, stdout, writes, first, ast, diags, reply, shown,
                   bracket_forward, calls, query_json, requests>>

\* completions, for an empty token and no trigger character: search_variable
\* and search_target list the cached variables and the targets as they are
\* when the request is handled.  refilling holds, for the runs that are in
\* _read_cache then, the tables before and after
completions ==
    /\ Len(requests) < MaxRequests
    /\ requests' = Append(requests,
           [variables |-> cached_variables,
            targets |-> targets,
            refilling |-> {<<runs[r].before, runs[r].after>> :
                              r \in {x \in DOMAIN runs : runs[x].at = "entry"}}])
    /\ UNCHANGED <<pc, mode, pass, lists, disk, file, content, tokens, remain,
                   formatted, stdout, writes, first, ast, diags, reply, shown,
                   bracket_forward, calls, query_json, targets, cached_variables,
                   runs>>

SpecRefresh ==
    /\ InitAstWith(<<>>)
    /\ [][\/ run_cmake
          \/ \E r \in DOMAIN runs : query(r)
          \/ \E r \in DOMAIN runs : read_reply(r)
          \/ completions]_vars

SpecDecl ==
    /\ \E text \in TextsOf(
        {<<"f", "u", "n", "c", "t", "i", "o", "n", "(", "f", ")", NL>>,
         <<"m", "a", "c", "r", "o", "(", "m", ")", NL>>,
         <<"e", "n", "d", "f", "u", "n", "c", "t", "i", "o", "n", "(", ")", NL>>,
         <<"e", "n", "d", "m", "a", "c", "r", "o", "(", ")", NL>>,
         <<"a", "(", ")", NL>>,
         <<"i", "f", "(", ")", NL>>,
         <<"e", "n", "d", "i", "f", "(", ")", NL>>,
         <<"w", "h", "i", "l", "e", "(", ")", NL>>,
         <<"r", "e", "t", "u", "r", "n", "(", ")", NL>>},
        MaxDeclLines) : InitAstWith(text)
    /\ [][NextAst]_vars

SpecLoop ==
    /\ \E text \in TextsOf(
        {<<"f", "o", "r", "e", "a", "c", "h", "(", ")", NL>>,
         <<"e", "n", "d", "f", "o", "r", "e", "a", "c", "h", "(", ")", NL>>,
         <<"w", "h", "i", "l", "e", "(", ")", NL>>,
         <<"e", "n", "d", "w", "h", "i", "l", "e", "(", ")", NL>>,
         <<"b", "r", "e", "a", "k", "(", ")", NL>>,
         <<"C", "O", "N", "T", "I", "N", "U", "E", "(", ")", NL>>},
        MaxLoopLines) : InitAstWith(text)
    /\ [][NextAst]_vars

SpecCond ==
    /\ \E text \in TextsOf(
        {<<"i", "f", "(", ")", NL>>,
         <<"e", "l", "s", "e", "i", "f", "(", ")", NL>>,
         <<"e", "l", "s", "e", "(", ")", NL>>,
         <<"e", "n", "d", "i", "f", "(", ")", NL>>,
         <<"a", "(", ")", NL>>},
        MaxCondLines) : InitAstWith(text)
    /\ [][NextAst]_vars

SpecRules ==
    /\ \E text \in TextsOf(
        {<<"s", "e", "t", "(", "X", " ", "$", "{", "X", "}", ")", NL>>,
         <<"S", "E", "T", "(", "X", " ", "$", "{", "Y", "}", ")", NL>>,
         <<"s", "e", "t", "(", "X", " ", DQ, "$", "{", "X", "}", "-", "$", "{", "X", "}", DQ, ")", NL>>,
         <<"s", "e", "t", "(", "X", " ", "$", "X", ")", NL>>,
         <<"s", "e", "t", "(", "X", " ", "$", "{", "X", "}", " ", "Y", ")", NL>>,
         <<"i", "f", "(", "A", ")", NL>>,
         <<"e", "l", "s", "e", "i", "f", "(", "A", ")", NL>>,
         <<"e", "l", "s", "e", "i", "f", "(", "A", " ", "B", ")", NL>>,
         <<"e", "l", "s", "e", "i", "f", "(", "B", ")", NL>>,
         <<"e", "n", "d", "i", "f", "(", ")", NL>>},
        MaxRuleLines) : InitAstWith(text)
    /\ [][NextAst]_vars

SpecKeyword ==
    /\ \E text \in TextsOf(
        {<<"i", "f", "_", "e", "n", "a", "b", "l", "e", "d", "(", ")", NL>>,
         <<"m", "a", "c", "r", "o", "_", "h", "e", "l", "p", "e", "r", "(", ")", NL>>,
         <<"W", "h", "i", "l", "e", "_", "w", "a", "i", "t", "i", "n", "g", "(", ")", NL>>,
         <<"e", "n", "d", "i", "f", "_", "h", "o", "o", "k", "(", ")", NL>>,
         <<"a", "(", ")", NL>>},
        MaxKeywordLines) : InitAstWith(text)
    /\ [][NextAst]_vars

SpecFault ==
    /\ \E text \in TextsOf(
        {<<"b", "r", "e", "a", "k", "(", ")", NL>>,
         <<"S", "E", "T", "(", "X", " ", "$", "{", "X", "}", ")", NL>>,
         <<"i", "f", "(", ")", NL>>,
         <<"e", "n", "d", "i", "f", "(", ")", NL>>},
        MaxFaultLines) : InitAstWith(text)
    /\ [][ParseAst \/ Diagnose \/ DiagnoseRaises]_vars

-----------------------------------------------------------------------------
(* Properties of the Token Mode parser, the formatter and its command line *)

\* the literal text of a token: a string as it is, a command as its
\* identifier, "(", its argument tokens and ")"
TokenText(tok) ==
    IF tok.cmd THEN tok.text \o <<"(">> \o Flatten(tok.args) \o <<")">> ELSE tok.text
TokensText(toks) == Flatten([k \in DOMAIN toks |-> TokenText(toks[k])])

IsSuffix(r, s) == Len(r) <= Len(s) /\ From(s, Len(s) - Len(r) + 1) = r
Count(s, c) == Cardinality({k \in DOMAIN s : s[k] = c})

\* C1: formatting is idempotent: the run on the output of a run returns
\* that output again, format(format(x)) = format(x)
C1_Idempotent == (pass = 2 /\ pc = "formatted") => formatted = first

\* C2: when the parse leaves an empty remainder, the literal texts of the
\* tokens, concatenated in order, are the input
C2_RoundTrip == (pc = "parsed" /\ remain = <<>>) => TokensText(tokens) = content

\* a text whose parentheses are all syntax (no comment, quote, escape or
\* bracket) and that opens more of them than it closes: its last command
\* is incomplete
EndsIncomplete(text) ==
    /\ \A k \in DOMAIN text : text[k] \notin {"#", DQ, BSL, "["}
    /\ Count(text, "(") > Count(text, ")")

\* C3: parse returns (tokens, remainder) with remainder a suffix of the
\* text; the tokens are those of the complete file elements before it and
\* no file element can be matched where the remainder begins; when nothing
\* matches at offset 0 the token list is empty and the remainder is the
\* text; an incomplete command is left in the remainder
C3_ParseTotal ==
    pc = "parsed" =>
        /\ IsSuffix(remain, content)
        /\ (tokens = <<>> => remain = content)
        /\ LET consumed == SubSeq(content, 1, Len(content) - Len(remain))
           IN  parse(consumed) = [tokens |-> tokens, remain |-> <<>>]
        /\ (remain # <<>> => parse(remain) = [tokens |-> <<>>, remain |-> remain])
        /\ (EndsIncomplete(content) => remain # <<>>)

\* C4: a text whose parse leaves a remainder is printed unchanged, and
\* with --inplace is neither written nor printed; the file is written only
\* with --inplace and an empty remainder, with the format of its tokens
C4_NoPartialRewrite ==
    pc = "done" =>
        /\ (remain # <<>> /\ mode = "stdout" =>
               stdout = <<[diff |-> FALSE, old |-> <<>>, new |-> content]>>)
        /\ (remain # <<>> /\ mode = "inplace" =>
               writes = 0 /\ stdout = <<>> /\ file = content)
        /\ (writes > 0 =>
               mode = "inplace" /\ remain = <<>> /\ writes = 1 /\ file = format(tokens))
        /\ (mode = "inplace" /\ remain = <<>> => writes = 1)

\* C4 witness: complete lines followed by an incomplete one, run with
\* --inplace: some tokens were matched and the file was left alone
C4_Witness ==
    /\ pc = "done" /\ mode = "inplace" /\ pass = 1
    /\ tokens # <<>> /\ remain # <<>>
    /\ format(tokens) # content
    /\ writes = 0

\* the close marker that belongs to an opener with n '=' signs
OwnMarker(n) == <<"]">> \o Rep("=", n) \o <<"]">>

\* p is the first position at or after i where lit occurs in s
FirstAt(s, i, lit, p) ==
    /\ p >= i
    /\ MatchAt(s, p, lit)
    /\ \A q \in i..(p - 1) : ~MatchAt(s, q, lit)

\* a bracket argument (with "#" before it, a bracket comment) that fills
\* str from position i to its end: its opener has n '=' signs and the first
\* occurrence of its own marker after the opener is the end of str
ClosedByOwnMarker(str, i) ==
    LET o == bracket_open(str, i)
        n == Len(o.toks[1]) - 2
    IN  /\ o.ok
        /\ FirstAt(str, o.pos, OwnMarker(n), Len(str) - n - 1)

\* C8: a bracket argument or bracket comment ends at the first occurrence
\* of the close marker with as many '=' as its own opener, wherever in the
\* text it opens; a marker of another fence length inside does not end it,
\* and every bracket comment of the token stream is closed by its own marker
C8_BracketOwnMarker ==
    pc = "parsed" =>
        /\ LET x == expandtabs(content)
           IN  \A i \in DOMAIN x :
                 LET o == bracket_open(x, i)
                     n == Len(o.toks[1]) - 2
                     b == bracket_argument(x, i)
                 IN  o.ok =>
                       /\ b.ok <=> \E p \in o.pos..Len(x) : MatchAt(x, p, OwnMarker(n))
                       /\ b.ok => /\ FirstAt(x, o.pos, OwnMarker(n), b.pos - n - 2)
                                  /\ b.toks = <<SubSeq(x, i, b.pos - 1)>>
        /\ \A k \in DOMAIN tokens :
              /\ (~tokens[k].cmd /\ tokens[k].text[1] = "#"
                    /\ bracket_open(tokens[k].text, 2).ok)
                 => ClosedByOwnMarker(tokens[k].text, 2)
              /\ \A j \in DOMAIN tokens[k].args :
                    LET arg == tokens[k].args[j]
                        o == bracket_open(arg, 1)
                        n == Len(o.toks[1]) - 2
                    IN  o.ok =>
                          \/ ClosedByOwnMarker(arg, 1)
                          \/ \A p \in o.pos..Len(arg) : ~MatchAt(arg, p, OwnMarker(n))

\* C8 witness: the whole text was parsed and one of its tokens is a
\* bracket comment or argument of fence length 1 with "]]" in its content
C8_Witness ==
    /\ pc = "parsed" /\ remain = <<>>
    /\ \E k \in DOMAIN tokens :
          LET strs == IF tokens[k].cmd THEN tokens[k].args ELSE <<tokens[k].text>>
          IN  \E j \in DOMAIN strs :
                LET str == strs[j]
                    i == IF str[1] = "#" THEN 2 ELSE 1
                IN  /\ bracket_open(str, i).ok
                    /\ bracket_open(str, i).pos = i + 3
                    /\ ClosedByOwnMarker(str, i)
                    /\ \E p \in (i + 3)..(Len(str) - 3) : MatchAt(str, p, <<"]", "]">>)

\* the nesting depth after each of the argument tokens, starting from 0
RECURSIVE ParenDepths(_, _)
ParenDepths(args, d) ==
    IF args = <<>> THEN <<>>
    ELSE LET d2 == IF Head(args) = <<"(">> THEN d + 1
                   ELSE IF Head(args) = <<")">> THEN d - 1
                   ELSE d
         IN  <<d2>> \o ParenDepths(Tail(args), d2)

Balanced(args) ==
    LET ds == ParenDepths(args, 0)
    IN  /\ \A k \in DOMAIN ds : ds[k] >= 0
        /\ (ds # <<>> => ds[Len(ds)] = 0)

\* C9: a parenthesised group inside an argument list, at any depth, is
\* kept flat in the argument tokens of its command as "(", the tokens of
\* the group, ")": every parenthesis of the arguments is a token of its
\* own, the argument tokens of a command that is the whole text are the
\* text between its parentheses, and the "(" and ")" tokens of a command
\* are balanced and properly nested
C9_ParenFlat ==
    pc = "parsed" =>
        \A k \in DOMAIN tokens :
            tokens[k].cmd =>
                /\ Balanced(tokens[k].args)
                /\ \A j \in DOMAIN tokens[k].args :
                      LET arg == tokens[k].args[j]
                      IN  \/ arg \in {<<"(">>, <<")">>}
                          \/ \A c \in DOMAIN arg : arg[c] \notin {"(", ")"}
                /\ LET x == expandtabs(content)
                       open == Len(tokens[k].text) + 1
                   IN  (Len(tokens) = 1 /\ remain = <<>> /\ At(x, open) = "("
                          /\ At(x, Len(x)) = ")")
                       => Flatten(tokens[k].args) = SubSeq(x, open + 1, Len(x) - 1)

\* C9 witness: a command with a group inside a group
C9_Witness ==
    /\ pc = "parsed" /\ remain = <<>>
    /\ \E k \in DOMAIN tokens :
          /\ tokens[k].cmd
          /\ \E j \in DOMAIN tokens[k].args : ParenDepths(tokens[k].args, 0)[j] = 2

-----------------------------------------------------------------------------
(* Properties of AST Mode and of the visitors *)

\* the nodes of a tree, declarations and ends of blocks included, without
\* the argument nodes
RECURSIVE Nodes(_), NodesOf(_)
Nodes(node) ==
    <<node>> \o
    CASE node.type = "ListsFile" -> NodesOf(node.blocks)
      [] node.type \in {"CommandDeclarationBlock", "LoopBlock"} ->
           <<node.declaration>> \o NodesOf(node.children) \o <<node.end>>
      [] node.type = "ConditionalBlock" -> NodesOf(node.branches) \o <<node.end>>
      [] node.type = "ConditionalBranch" -> <<node.declaration>> \o NodesOf(node.children)
      [] OTHER -> <<>>
NodesOf(children) ==
    IF children = <<>> THEN <<>> ELSE Nodes(Head(children)) \o NodesOf(Tail(children))

\* the lines of a text, without their newlines
RECURSIVE Lines(_)
Lines(text) ==
    IF text = <<>> THEN <<>>
    ELSE LET e == SkipToLineEnd(text, 1)
         IN  <<SubSeq(text, 1, e - 1)>> \o Lines(From(text, e + 1))

\* the command name a line starts with, in lower case
LineKeyword(line) ==
    LET id == identifier(line, 1) IN IF id.ok THEN lower(id.toks[1]) ELSE <<>>

\* the end keyword that belongs to an opening keyword
EndOf(kw) ==
    CASE kw = Kw.function -> Kw.endfunction
      [] kw = Kw.macro -> Kw.endmacro
      [] kw = Kw.foreach -> Kw.endforeach
      [] kw = Kw.while -> Kw.endwhile
      [] OTHER -> <<>>

\* the lines read as brackets, for the opening keywords Open: "ok" when
\* every opening line is closed by its own end keyword and properly nested,
\* else the first fault met
RECURSIVE Pairing(_, _, _)
Pairing(lines, stack, Open) ==
    IF lines = <<>> THEN (IF stack = <<>> THEN "ok" ELSE "unterminated")
    ELSE LET kw == LineKeyword(Head(lines))
         IN  IF kw \in Open THEN Pairing(Tail(lines), <<kw>> \o stack, Open)
             ELSE IF kw \in {EndOf(o) : o \in Open}
             THEN IF stack = <<>> THEN "orphan"
                  ELSE IF EndOf(Head(stack)) # kw THEN "mismatch"
                  ELSE Pairing(Tail(lines), Tail(stack), Open)
             ELSE Pairing(Tail(lines), stack, Open)

AstParsed == pc \in {"tree", "failed", "diagnosed"}
Consumed == SubSeq(content, 1, Len(content) - Len(ast.remain))

\* every CommandDeclarationBlock of the tree pairs function with
\* endfunction or macro with endmacro
DeclarationsPaired ==
    \A k \in DOMAIN Nodes(ast.tree) :
        LET node == Nodes(ast.tree)[k]
        IN  node.type = "CommandDeclarationBlock" =>
              /\ node.declaration.type = "CommandDeclarationStart"
              /\ node.end.type = "CommandDeclarationEnd"
              /\ node.declaration.identifier \in {Kw.function, Kw.macro}
              /\ node.end.identifier = EndOf(node.declaration.identifier)

\* C5 as stated: a text in which a function or macro block is closed by the
\* other kind's end keyword, is left unterminated, or an end keyword stands
\* without its opener, is a structural failure, and no tree holds a
\* mismatched CommandDeclarationBlock
C5_DeclarationMismatchFails ==
    AstParsed =>
        /\ DeclarationsPaired
        /\ Pairing(Lines(content), <<>>, {Kw.function, Kw.macro}) # "ok" => ast.fatal

\* C5 amended: no tree holds a mismatched CommandDeclarationBlock; the
\* parse never stops in front of a function or macro declaration line: the
\* block such a line opens is closed by its own end keyword at its depth, or
\* the parse is a structural failure; the function and macro lines of the
\* text a successful parse consumed are paired and nested; and an end
\* keyword at the start of the text is no failure: the tree is empty and the
\* whole text is the remainder
C5_DeclarationPaired ==
    AstParsed =>
        /\ DeclarationsPaired
        /\ ~ast.fatal =>
              /\ ast.remain # <<>> =>
                    LineKeyword(Lines(ast.remain)[1]) \notin {Kw.function, Kw.macro}
              /\ Pairing(Lines(Consumed), <<>>, {Kw.function, Kw.macro}) = "ok"
        /\ (content # <<>>
              /\ LineKeyword(Lines(content)[1]) \in {Kw.endfunction, Kw.endmacro})
           => /\ ~ast.fatal
              /\ ast.tree.blocks = <<>>
              /\ ast.remain = content

\* C5 witness: a function block closed by endmacro was a structural failure
C5_Witness ==
    /\ pc = "failed"
    /\ Len(Lines(content)) >= 2
    /\ LineKeyword(Lines(content)[1]) = Kw.function
    /\ LineKeyword(Lines(content)[2]) = Kw.endmacro

\* C6: every LoopBlock has a LoopDeclaration of foreach or while as its
\* declaration and the LoopEnd of the matching end keyword as its end; a
\* text that starts with a foreach or while line parses into a LoopBlock
\* that starts there, or is a structural failure; and a text of loop lines
\* and plain commands whose loops are all closed by their own end keyword
\* and nested parses to its end
C6_LoopForms ==
    AstParsed =>
        /\ \A k \in DOMAIN Nodes(ast.tree) :
              LET node == Nodes(ast.tree)[k]
              IN  node.type = "LoopBlock" =>
                    /\ node.declaration.type = "LoopDeclaration"
                    /\ node.end.type = "LoopEnd"
                    /\ node.declaration.identifier \in {Kw.foreach, Kw.while}
                    /\ node.end.identifier = EndOf(node.declaration.identifier)
        /\ (content # <<>> /\ LineKeyword(Lines(content)[1]) \in {Kw.foreach, Kw.while})
           => \/ ast.fatal
              \/ /\ ast.tree.blocks # <<>>
                 /\ ast.tree.blocks[1].type = "LoopBlock"
                 /\ ast.tree.blocks[1].declaration.identifier = LineKeyword(Lines(content)[1])
        /\ (/\ Pairing(Lines(content), <<>>, {Kw.foreach, Kw.while}) = "ok"
            /\ \A k \in DOMAIN Lines(content) :
                  LineKeyword(Lines(content)[k]) \notin
                      {<<>>} \cup (block_keyword_strs \
                          {Kw.foreach, Kw.endforeach, Kw.while, Kw.endwhile}))
           => ~ast.fatal /\ ast.remain = <<>>

\* C7: the branches of a ConditionalBlock are one if branch, elseif
\* branches and at most one else branch, the last; no branch holds an else()
\* invocation in its body; the end is endif
C7_ConditionalBranches ==
    AstParsed =>
        \A k \in DOMAIN Nodes(ast.tree) :
            LET node == Nodes(ast.tree)[k]
                n == Len(node.branches)
            IN  node.type = "ConditionalBlock" =>
                  /\ n >= 1
                  /\ node.branches[1].declaration.identifier = Kw.if
                  /\ \A b \in 2..n :
                        \/ node.branches[b].declaration.identifier = Kw.elseif
                        \/ b = n /\ node.branches[b].declaration.identifier = <<"e", "l", "s", "e">>
                  /\ node.end.identifier = Kw.endif
                  /\ \A b \in 1..n : \A c \in DOMAIN node.branches[b].children :
                        LET child == node.branches[b].children[c]
                        IN  ~(child.type = "CommandInvocation"
                              /\ lower(child.identifier) = <<"e", "l", "s", "e">>)

\* the break and continue invocations below a node, each with the number
\* of LoopBlocks around it, in the order of the text
RECURSIVE LoopCommands(_, _), LoopCommandsOf(_, _)
LoopCommands(node, depth) ==
    CASE node.type = "ListsFile" -> LoopCommandsOf(node.blocks, depth)
      [] node.type = "CommandDeclarationBlock" -> LoopCommandsOf(node.children, depth)
      [] node.type = "ConditionalBlock" -> LoopCommandsOf(node.branches, depth)
      [] node.type = "ConditionalBranch" -> LoopCommandsOf(node.children, depth)
      [] node.type = "LoopBlock" -> LoopCommandsOf(node.children, depth + 1)
      [] node.type = "CommandInvocation" /\ lower(node.identifier) \in BreakContinue ->
           <<[loc |-> node.loc, depth |-> depth]>>
      [] OTHER -> <<>>
LoopCommandsOf(children, depth) ==
    IF children = <<>> THEN <<>>
    ELSE LoopCommands(Head(children), depth) \o LoopCommandsOf(Tail(children), depth)

\* the places of the diagnostics of a rule
DiagnosticsOf(rule) ==
    LET Mine(d) == d.rule = rule
        mine == SelectSeq(diags, Mine)
    IN  [k \in DOMAIN mine |-> mine[k].loc]

\* C10: OrphanedLoopCommand reports one Error for each break or continue
\* invocation, in any case of letters, that no LoopBlock encloses, and
\* none for an invocation inside a loop at any depth
C10_OrphanedLoopCommand ==
    pc = "diagnosed" =>
        LET Orphan(c) == c.depth = 0
            orphans == SelectSeq(LoopCommands(ast.tree, 0), Orphan)
        IN  DiagnosticsOf("OrphanedLoopCommand") = [k \in DOMAIN orphans |-> orphans[k].loc]

\* C10 witness: a tree with a loop command inside a loop and one outside of
\* any, and a diagnostic
C10_Witness ==
    /\ pc = "diagnosed"
    /\ DiagnosticsOf("OrphanedLoopCommand") # <<>>
    /\ \E k \in DOMAIN LoopCommands(ast.tree, 0) : LoopCommands(ast.tree, 0)[k].depth > 0
    /\ \E k \in DOMAIN LoopCommands(ast.tree, 0) : LoopCommands(ast.tree, 0)[k].depth = 0

\* the return invocations below a node, each with the number of macro
\* blocks around it, in the order of the text
RECURSIVE ReturnCommands(_, _), ReturnCommandsOf(_, _)
ReturnCommands(node, depth) ==
    CASE node.type = "ListsFile" -> ReturnCommandsOf(node.blocks, depth)
      [] node.type = "CommandDeclarationBlock" ->
           ReturnCommandsOf(node.children,
                            IF lower(node.declaration.identifier) = Kw.macro
                            THEN depth + 1 ELSE depth)
      [] node.type = "ConditionalBlock" -> ReturnCommandsOf(node.branches, depth)
      [] node.type = "ConditionalBranch" -> ReturnCommandsOf(node.children, depth)
      [] node.type = "LoopBlock" -> ReturnCommandsOf(node.children, depth)
      [] node.type = "CommandInvocation"
           /\ lower(node.identifier) = <<"r", "e", "t", "u", "r", "n">> ->
           <<[loc |-> node.loc, depth |-> depth]>>
      [] OTHER -> <<>>
ReturnCommandsOf(children, depth) ==
    IF children = <<>> THEN <<>>
    ELSE ReturnCommands(Head(children), depth) \o ReturnCommandsOf(Tail(children), depth)

\* C11: ReturnInMacro reports one Warning for each return invocation that a
\* macro block encloses, and none for a return invocation inside functions
\* only or at top level
C11_ReturnInMacro ==
    pc = "diagnosed" =>
        LET InMacro(c) == c.depth > 0
            inside == SelectSeq(ReturnCommands(ast.tree, 0), InMacro)
        IN  DiagnosticsOf("ReturnInMacro") = [k \in DOMAIN inside |-> inside[k].loc]

\* C12: RedundantAssignment reports one Warning for each set invocation
\* with exactly two arguments whose second one holds exactly one "$" and is
\* "${", the first argument, "}"; and none for any other invocation
C12_RedundantAssignment ==
    pc = "diagnosed" =>
        LET Redundant(node) ==
                /\ node.type = "CommandInvocation"
                /\ lower(node.identifier) = <<"s", "e", "t">>
                /\ Len(node.arguments) = 2
                /\ Count(node.arguments[2].value, "$") = 1
                /\ node.arguments[2].value =
                       <<"$", "{">> \o node.arguments[1].value \o <<"}">>
            redundant == SelectSeq(Nodes(ast.tree), Redundant)
        IN  DiagnosticsOf("RedundantAssignment") =
                [k \in DOMAIN redundant |-> redundant[k].loc]

\* C13: DuplicateBranch reports at most one Warning for each conditional
\* block: on the later branch of the first pair of branches, in ascending
\* order, whose conditions have the same length and the same value at
\* every position; and none for a block without such a pair
C13_DuplicateBranch ==
    pc = "diagnosed" =>
        LET Values(branch) ==
                [k \in DOMAIN branch.declaration.arguments |->
                    branch.declaration.arguments[k].value]
            Same(node, p) == Values(node.branches[p[1]]) = Values(node.branches[p[2]])
            Pairs(node) ==
                {p \in (DOMAIN node.branches) \X (DOMAIN node.branches) :
                    p[1] < p[2] /\ Same(node, p)}
            FirstPair(node) ==
                CHOOSE p \in Pairs(node) :
                    \A q \in Pairs(node) :
                        p[1] < q[1] \/ (p[1] = q[1] /\ p[2] <= q[2])
            Duplicated(node) == node.type = "ConditionalBlock" /\ Pairs(node) # {}
            blocks_ == SelectSeq(Nodes(ast.tree), Duplicated)
        IN  DiagnosticsOf("DuplicateBranch") =
                [k \in DOMAIN blocks_ |->
                    blocks_[k].branches[FirstPair(blocks_[k])[2]].loc]

-----------------------------------------------------------------------------
(* Properties of the formatter's output *)

\* a line that is empty or holds white space only
Blank(line) == \A k \in DOMAIN line : line[k] \in Whitespace

\* the text ends with one newline, not with two, and neither its first nor
\* its last line is blank
Trimmed(text) ==
    /\ text # <<>>
    /\ text[Len(text)] = NL
    /\ ~IsSuffix(<<NL, NL>>, text)
    /\ ~Blank(Lines(text)[1])
    /\ ~Blank(Lines(text)[Len(Lines(text))])

\* C14 as stated: for every token stream, format returns a text that ends
\* with exactly one newline and has no blank line at its start or before
\* the final newline
C14_Trimmed == (pc = "formatted" /\ remain = <<>>) => Trimmed(formatted)

\* C14: format returns a text that ends with exactly one newline and has no
\* blank line at its start or before the final newline, unless the token
\* stream holds no command and no comment: then it returns the single
\* newline, a blank line
C14_TrimmedOrNewline ==
    (pc = "formatted" /\ remain = <<>>) =>
        IF \E k \in DOMAIN tokens : tokens[k].cmd \/ tokens[k].text[1] = "#"
        THEN Trimmed(formatted)
        ELSE formatted = <<NL>>

\* C14 witness: a formatted text whose source started and ended with blank
\* lines
C14_Witness ==
    /\ pc = "formatted"
    /\ remain = <<>>
    /\ formatted # <<NL>>
    /\ content[1] = NL
    /\ IsSuffix(<<NL, NL>>, content)

\* the indent level of each line as the rules of C15 give it, from the
\* level before the first of the lines
RECURSIVE IndentLevels(_, _)
IndentLevels(lines, level) ==
    IF lines = <<>> THEN <<>>
    ELSE LET kw == LineKeyword(Head(lines))
             lv == IF /\ kw \in {<<"e", "l", "s", "e", "i", "f">>, <<"e", "l", "s", "e">>,
                                 Kw.endif, Kw.endforeach, Kw.endwhile, Kw.endmacro,
                                 Kw.endfunction}
                      /\ level > 0
                   THEN level - 1 ELSE level
             after == IF kw \in {Kw.if, <<"e", "l", "s", "e", "i", "f">>,
                                 <<"e", "l", "s", "e">>, Kw.foreach, Kw.while, Kw.macro,
                                 Kw.function}
                      THEN lv + 1 ELSE lv
         IN  <<lv>> \o IndentLevels(Tail(lines), after)

\* the nesting depth of each line of a text of if, else and endif lines,
\* commands and comments, from the depth before the first of the lines; a
\* depth of -1 marks a text that is not properly nested
RECURSIVE NestingDepths(_, _)
NestingDepths(lines, depth) ==
    IF lines = <<>> THEN IF depth = 0 THEN <<>> ELSE <<-1>>
    ELSE LET kw == LineKeyword(Head(lines))
         IN  IF kw = Kw.if THEN <<depth>> \o NestingDepths(Tail(lines), depth + 1)
             ELSE IF kw \in {<<"e", "l", "s", "e">>, Kw.endif}
             THEN IF depth = 0 THEN <<-1>>
                  ELSE <<depth - 1>> \o
                       NestingDepths(Tail(lines), IF kw = Kw.endif THEN depth - 1 ELSE depth)
             ELSE <<depth>> \o NestingDepths(Tail(lines), depth)

ProperlyNested(lines) == \A k \in DOMAIN NestingDepths(lines, 0) : NestingDepths(lines, 0)[k] >= 0

\* C15: the indent level starts at 0 and is never negative; elseif, else
\* and the end keywords take one level off, not below 0, before their line
\* is emitted; if, elseif, else, foreach, while, macro and function add one
\* after it; every command line and every comment line of its own is
\* prefixed by level times the indent unit; so in a properly nested text
\* the indentation of each line is its nesting depth
C15_Indentation ==
    (pc = "formatted" /\ remain = <<>> /\ content # <<>>) =>
        LET raw == Lines(content)
            src == [k \in DOMAIN raw |-> From(raw[k], SpanEnd(raw[k], 1, {" "}))]
            out == Lines(formatted)
            levels == IndentLevels(src, 0)
            Line(k) == IF LineKeyword(src[k]) = <<>> THEN src[k]
                       ELSE lower(LineKeyword(src[k])) \o <<"(", ")">>
        IN  /\ Len(out) = Len(src)
            /\ \A k \in DOMAIN src :
                  /\ levels[k] >= 0
                  /\ out[k] = Rep(" ", Len(indent) * levels[k]) \o Line(k)
            /\ ProperlyNested(src) =>
                  \A k \in DOMAIN src :
                      out[k] = Rep(" ", Len(indent) * NestingDepths(src, 0)[k]) \o Line(k)

\* C15 witness: a properly nested text with an else line, formatted
C15_Witness ==
    /\ pc = "formatted"
    /\ remain = <<>>
    /\ ProperlyNested(Lines(content))
    /\ \E k \in DOMAIN Lines(content) : LineKeyword(Lines(content)[k]) = <<"e", "l", "s", "e">>
    /\ \E k \in DOMAIN Lines(content) : LineKeyword(Lines(content)[k]) = <<"a">>

\* the tokens of a list up to its first newline token, as one text
RECURSIVE UpToNewline(_)
UpToNewline(toks) ==
    IF toks = <<>> \/ Head(toks).text = <<NL>> THEN <<>>
    ELSE Head(toks).text \o UpToNewline(Tail(toks))

\* a formatted stream whose first token is a command
CommandFormatted ==
    /\ pc = "formatted"
    /\ remain = <<>>
    /\ tokens # <<>>
    /\ tokens[1].cmd

\* C16: a command whose rendered argument block has at most one line is
\* emitted on one line as name(args); otherwise as name(, one line per
\* argument line at indent level + 1, and ) at the level of the command;
\* what followed the closing parenthesis on its source line, a comment, stays
\* on the line of the emitted )
C16_Rendering ==
    CommandFormatted =>
        LET name == lower(tokens[1].text)
            rendered == format_args(tokens[1].args)
            trail == rstrip(UpToNewline(Tail(tokens)))
            expected ==
                IF Len(rendered) <= 1
                THEN name \o <<"(">> \o Flatten(rendered) \o <<")">> \o trail \o <<NL>>
                ELSE name \o <<"(", NL>>
                     \o Flatten([k \in DOMAIN rendered |-> indent \o rendered[k] \o <<NL>>])
                     \o <<")">> \o trail \o <<NL>>
        IN  /\ Len(formatted) >= Len(expected)
            /\ SubSeq(formatted, 1, Len(expected)) = expected

\* C16 witness: a command over several lines with a comment after its ")"
C16_Witness ==
    /\ CommandFormatted
    /\ Len(format_args(tokens[1].args)) >= 2
    /\ \E k \in DOMAIN formatted : formatted[k] = ")" /\ At(formatted, k + 1) = "#"

\* the argument tokens of a command, line by line of the source
RECURSIVE ArgumentLines(_, _)
ArgumentLines(args, line) ==
    IF args = <<>> THEN <<line>>
    ELSE IF Head(args) = <<NL>> THEN <<line>> \o ArgumentLines(Tail(args), <<>>)
    ELSE ArgumentLines(Tail(args), Append(line, Head(args)))

\* one argument line as C17 renders it: a white space run becomes one
\* space unless a comment follows it, and the white space at the start and
\* at the end of the line is dropped
RenderedLine(toks) ==
    LET Piece(k) == IF ~Blank(toks[k]) THEN toks[k]
                    ELSE IF k < Len(toks) /\ toks[k + 1][1] = "#" THEN toks[k]
                    ELSE <<" ">>
        start == IF toks # <<>> /\ Blank(toks[1]) THEN 2 ELSE 1
    IN  rstrip(Flatten([k \in 1..(Len(toks) - start + 1) |-> Piece(k + start - 1)]))

\* C17: within an argument block every white space run between two
\* arguments of a line is one space, the white space at the start and at
\* the end of each line is dropped, and a run is kept as it was only in
\* front of a comment
C17_ArgumentSpacing ==
    CommandFormatted =>
        LET NotEmpty(line) == line # <<>>
            src == ArgumentLines(tokens[1].args, <<>>)
        IN  SelectSeq(format_args(tokens[1].args), NotEmpty) =
                SelectSeq([k \in DOMAIN src |-> RenderedLine(src[k])], NotEmpty)

\* C17 witness: a white space run in front of a comment, after an argument
C17_Witness ==
    /\ CommandFormatted
    /\ \E k \in DOMAIN tokens[1].args :
          /\ k > 1 /\ k < Len(tokens[1].args)
          /\ tokens[1].args[k - 1] = <<"b">>
          /\ tokens[1].args[k] = <<" ", " ">>
          /\ tokens[1].args[k + 1][1] = "#"

\* C18: the rendered argument block of a command holds no empty or white
\* space only line, wherever the blank line was in the source
C18_NoBlankArgumentLine ==
    CommandFormatted =>
        \A k \in DOMAIN format_args(tokens[1].args) : ~Blank(format_args(tokens[1].args)[k])

-----------------------------------------------------------------------------
(* Properties of the command line run over several list files *)

\* what the run makes of list file k by itself: its text as it was when the
\* parse leaves a remainder, the formatted text of its tokens otherwise
Outcome(k) ==
    IF parse(lists[k]).remain # <<>> THEN lists[k]
    ELSE format(parse(lists[k]).tokens)

\* C19: the list files are processed in the order of the arguments, each by
\* itself, and their outputs appear in that order; a file whose parse
\* leaves a remainder is passed through and the files after it are
\* formatted all the same
C19_Batch ==
    pc = "done" =>
        LET n == Len(disk) + 1
            Changed(k) == Outcome(k) # lists[k]
            changed == SelectSeq([k \in 1..n |-> k], Changed)
        IN  CASE mode = "stdout" ->
                   /\ stdout = [k \in 1..n |->
                                   [diff |-> FALSE, old |-> <<>>, new |-> Outcome(k)]]
                   /\ Append(disk, file) = SubSeq(lists, 1, n)
              [] mode = "diff" ->
                   /\ stdout = [j \in DOMAIN changed |->
                                   [diff |-> TRUE, old |-> lists[changed[j]],
                                    new |-> Outcome(changed[j])]]
                   /\ Append(disk, file) = SubSeq(lists, 1, n)
              [] mode = "inplace" ->
                   /\ stdout = <<>>
                   /\ Append(disk, file) = [k \in 1..n |-> Outcome(k)]

\* C19 witness: the run is through with its three list files, the first of
\* which left a remainder and the last of which was formatted
C19_Witness ==
    /\ pc = "done"
    /\ Len(disk) = 2
    /\ parse(lists[1]).remain # <<>>
    /\ parse(lists[3]).remain = <<>>
    /\ Outcome(3) # lists[3]
    /\ Outcome(2) # Outcome(3)

-----------------------------------------------------------------------------
(* Properties of the server's formatting request *)

\* C20: the formatting request returns no edit, after the message 'CMake
\* parser failed', when the parse of the document leaves a remainder;
\* otherwise exactly one TextEdit from line 0, character 0 to line (number
\* of newlines of the document + 1), character 0, whose new text is the
\* formatted text of the document's tokens
C20_Formatting ==
    pc = "replied" =>
        IF parse(content).remain # <<>>
        THEN /\ reply.result = "None"
             /\ reply.edits = <<>>
             /\ shown = <<"CMake parser failed">>
        ELSE /\ reply.result = "edits"
             /\ Len(reply.edits) = 1
             /\ reply.edits[1].range.start = [line |-> 0, character |-> 0]
             /\ reply.edits[1].range.end = [line |-> Count(content, NL) + 1, character |-> 0]
             /\ reply.edits[1].new_text = format(parse(content).tokens)
             /\ shown = <<>>

\* C20 witness: an edit for a document of two lines that formatting changes
C20_Witness ==
    /\ pc = "replied"
    /\ reply.result = "edits"
    /\ Count(content, NL) = 2
    /\ \E k \in DOMAIN tokens : tokens[k].cmd
    /\ reply.edits[1].new_text # content

-----------------------------------------------------------------------------
(* Properties of the traversal and of the dispatch of a diagnostic pass *)

\* the nodes handed to visitor.visit by ast[0].visit(visitor), without the
\* argument nodes
VisitedNodes ==
    LET NotArgument(n) ==
            n.type \notin {"UnquotedArgument", "QuotedArgument", "BracketArgument"}
    IN  SelectSeq(Visit(ast.tree), NotArgument)

\* C25: one diagnostic pass walks the tree pre-order depth-first: every
\* compound node before its children, the declaration node of every block
\* before the body of the block, its end node once, after the body, and no
\* node of the tree is skipped
C25_Traversal ==
    pc = "diagnosed" => VisitedNodes = Nodes(ast.tree)

\* the states of the visitor of a rule along a traversal: the state before
\* each node, then the state after the last one
RECURSIVE VisitorStates(_, _, _)
VisitorStates(rule, v, nodes) ==
    IF nodes = <<>> THEN <<v>>
    ELSE <<v>> \o VisitorStates(rule,
                    DiagnosticVisitor_visit(rule, v, Mro(Head(nodes).type), Head(nodes)),
                    Tail(nodes))

\* the class statements of grammar.py: the base class of a node class
Parent(type) ==
    IF type \in {"UnquotedArgument", "QuotedArgument", "BracketArgument"} THEN "Argument"
    ELSE IF type \in {"CommandDeclarationStart", "CommandDeclarationEnd",
                      "ConditionalBranchDeclaration", "ConditionalEnd",
                      "LoopDeclaration", "LoopEnd"} THEN "CommandInvocation"
    ELSE "ASTNode"

\* the ancestry of a node class below ASTNode, the most specific class first
RECURSIVE Ancestry(_)
Ancestry(type) == IF type = "ASTNode" THEN <<>> ELSE <<type>> \o Ancestry(Parent(type))

\* the classes C for which a rule defines a handler visit_C
Defines(rule) ==
    CASE rule = "OrphanedLoopCommand" ->
           {"LoopDeclaration", "LoopEnd", "CommandInvocation"}
      [] rule = "ReturnInMacro" ->
           {"CommandDeclarationStart", "CommandDeclarationEnd", "CommandInvocation"}
      [] rule = "DuplicateBranch" -> {"ConditionalBlock"}
      [] OTHER -> {"CommandInvocation"}

\* C24: for every rule and every visited node, DiagnosticVisitor.visit calls
\* the handlers the rule defines for the classes of the ancestry of the node
\* below ASTNode, the most specific class first, and appends their results:
\* the classes it dispatches on are that ancestry, which for a node of a
\* specialised command class ends with CommandInvocation, and the visitor is
\* left as those handlers, applied in that order, leave it
C24_Dispatch ==
    pc = "diagnosed" =>
        \A r \in DOMAIN visitors :
            LET rule == visitors[r]
                nodes == Visit(ast.tree)
                states == VisitorStates(rule, NewVisitor(rule), nodes)
                Defined(c) == c \in Defines(rule)
                Mine(d) == d.rule = rule
            IN  /\ states[Len(states)].diagnostics = SelectSeq(diags, Mine)
                /\ \A k \in DOMAIN nodes :
                    /\ Mro(nodes[k].type) = Ancestry(nodes[k].type)
                    /\ nodes[k].type \in CommandTypes =>
                           Mro(nodes[k].type)[Len(Mro(nodes[k].type))] = "CommandInvocation"
                    /\ states[k + 1] =
                           DiagnosticVisitor_visit(rule, states[k],
                               SelectSeq(Ancestry(nodes[k].type), Defined), nodes[k])

\* C24 witness: a pass over a tree with a loop declaration, a loop end and
\* a loop command, on which the generic handler of OrphanedLoopCommand
\* produced a diagnostic
C24_Witness ==
    /\ pc = "diagnosed"
    /\ \E k \in DOMAIN VisitedNodes : VisitedNodes[k].type = "LoopDeclaration"
    /\ \E k \in DOMAIN VisitedNodes : VisitedNodes[k].type = "LoopEnd"
    /\ DiagnosticsOf("OrphanedLoopCommand") # <<>>

\* the number of LoopBlocks around each node of a traversal, in the order
\* of the traversal; the declaration and the end of a LoopBlock are inside it
RECURSIVE LoopDepths(_, _), LoopDepthsOf(_, _)
LoopDepths(node, depth) ==
    CASE node.type \in {"ListsFile"} ->
           <<depth>> \o LoopDepthsOf(node.blocks, depth)
      [] node.type \in {"CommandDeclarationBlock", "ConditionalBranch"} ->
           <<depth>> \o LoopDepthsOf(node.children, depth)
      [] node.type = "ConditionalBlock" ->
           <<depth>> \o LoopDepthsOf(node.branches, depth) \o LoopDepths(node.end, depth)
      [] node.type = "LoopBlock" ->
           <<depth>> \o LoopDepths(node.declaration, depth + 1)
                     \o LoopDepthsOf(node.children, depth + 1)
                     \o LoopDepths(node.end, depth + 1)
      [] OTHER -> [k \in DOMAIN Visit(node) |-> depth]
LoopDepthsOf(children, depth) ==
    IF children = <<>> THEN <<>>
    ELSE LoopDepths(Head(children), depth) \o LoopDepthsOf(Tail(children), depth)

\* C28: during a diagnostic pass OrphanedLoopCommand.loop_counter is never
\* negative, is the number of loop blocks around the node being visited
\* (after the handlers of a loop declaration for that declaration, before
\* those of a loop end for that end), and is 0 when the pass ends
C28_LoopCounter ==
    pc = "diagnosed" =>
        LET nodes == Visit(ast.tree)
            states == VisitorStates("OrphanedLoopCommand",
                                    NewVisitor("OrphanedLoopCommand"), nodes)
            depths == LoopDepths(ast.tree, 0)
        IN  /\ \A k \in DOMAIN states : states[k].loop_counter >= 0
            /\ \A k \in DOMAIN nodes :
                   IF nodes[k].type = "LoopDeclaration"
                   THEN states[k + 1].loop_counter = depths[k]
                   ELSE states[k].loop_counter = depths[k]
            /\ states[Len(states)].loop_counter = 0

\* C28 witness: a pass over a tree with a loop block inside a loop block
\* and an invocation inside a loop block
C28_Witness ==
    /\ pc = "diagnosed"
    /\ \E k \in DOMAIN Visit(ast.tree) : LoopDepths(ast.tree, 0)[k] = 2
    /\ \E k \in DOMAIN Visit(ast.tree) :
        /\ Visit(ast.tree)[k].type = "CommandInvocation"
        /\ LoopDepths(ast.tree, 0)[k] = 1

-----------------------------------------------------------------------------
(* Formatting and the program it formats *)

\* the commands of a token stream: the identifier in lower case and the
\* argument and comment tokens that are not white space
Program(toks) ==
    LET IsCommand(t) == t.cmd
        Significant(a) == \E k \in DOMAIN a : a[k] \notin Whitespace
        cmds == SelectSeq(toks, IsCommand)
    IN  [k \in DOMAIN cmds |->
            [identifier |-> lower(cmds[k].text),
             arguments |-> SelectSeq(cmds[k].args, Significant)]]

\* C27: when parse consumes the input, the text format returns parses with
\* an empty remainder too, to the same commands: the same identifiers up to
\* the case of letters and the same argument and comment tokens
C27_ProgramPreserved ==
    (pc = "formatted" /\ remain = <<>>) =>
        /\ parse(formatted).remain = <<>>
        /\ Program(parse(formatted).tokens) = Program(tokens)

-----------------------------------------------------------------------------
(* The recursion of the grammar *)

\* the number of activations of the arguments rule that are nested in one
\* another while it matches at i: the repetition goes on at the same depth,
\* '(' + arguments + ')' enters the rule once more
RECURSIVE RecursionDepth(_, _)
RecursionDepth(s, i) ==
    LET one == OrElse(argument(s, i), OrElse(line_ending(s, i), space_plus(s, i)))
        group == paren_group(s, i, arguments(s, i + 1))
        inside == 1 + RecursionDepth(s, i + 1)
        after == IF group.ok THEN RecursionDepth(s, group.pos) ELSE 0
    IN  IF one.ok THEN RecursionDepth(s, one.pos)
        ELSE IF At(s, i) = "(" THEN (IF inside > after THEN inside ELSE after)
        ELSE 0

\* C22: the recursion of parse into nested parenthesised groups is bounded
\* by a guard: a parse that consumed its text never entered the arguments
\* rule deeper than the guard allows (the arguments of the command itself
\* are depth 1), however deep the groups of the text are nested
C22_RecursionGuard ==
    (pc = "parsed" /\ remain = <<>> /\ Len(content) >= 2
        /\ SubSeq(content, 1, 2) = <<"a", "(">>) =>
        1 + RecursionDepth(content, 3) <= RecursionGuard

-----------------------------------------------------------------------------
(* Faults of a rule *)

\* the diagnostics diagnose returns when the passes of the rules of the
\* set skipped are left out
RECURSIVE DiagnosticsWithout(_, _, _)
DiagnosticsWithout(skipped, k, tree) ==
    IF k > Len(visitors) THEN <<>>
    ELSE (IF visitors[k] \in skipped THEN <<>>
          ELSE RunVisitor(visitors[k], tree).diagnostics)
         \o DiagnosticsWithout(skipped, k + 1, tree)

\* C23: diagnose never raises: a fault inside the pass of one rule is
\* caught, the pass of that rule is skipped, and diagnose returns the
\* diagnostics of every other rule
C23_FaultIsolation ==
    pc \in {"diagnosed", "raised"} =>
        /\ pc = "diagnosed"
        /\ \E skipped \in SUBSET Range(visitors) :
            /\ Cardinality(skipped) <= 1
            /\ diags = DiagnosticsWithout(skipped, 1, ast.tree)

-----------------------------------------------------------------------------
(* Identifiers that begin with a block keyword *)

\* C26: a command whose identifier begins with a block keyword, in any
\* case of letters, but is longer is an ordinary CommandInvocation of the
\* tree with its identifier as it is written, as it is a command of Token
\* Mode: a text of such command lines parses, with nothing left, to one
\* CommandInvocation per line
C26_KeywordPrefix ==
    AstParsed =>
        LET lines == Lines(content)
        IN  /\ pc # "failed"
            /\ ast.remain = <<>>
            /\ parse(content).remain = <<>>
            /\ Len(ast.tree.blocks) = Len(lines)
            /\ \A k \in DOMAIN ast.tree.blocks :
                /\ ast.tree.blocks[k].type = "CommandInvocation"
                /\ ast.tree.blocks[k].identifier = identifier(lines[k], 1).toks[1]

-----------------------------------------------------------------------------
(* Calls that share a parser *)

\* C21: parse is reentrant: whatever the interleaving of two calls on one
\* ListParser, each call returns the tokens and the remainder it returns
\* when it runs alone, and the close marker its bracket argument is matched
\* with is the one of its own opener, never the one of the other call
C21_Reentrant ==
    \A w \in DOMAIN calls :
        calls[w].at = "returned" =>
            /\ calls[w].result = calls[w].alone
            /\ calls[w].marker =
                   action_bracket_open(bracket_open(calls[w].liststr, 3).toks[1])

-----------------------------------------------------------------------------
(* Refreshes that overlap, and requests during a refresh *)

\* C29: overlapping runs of run_cmake do not interfere: no call of query
\* raises, and the query file is present for the whole of the cmake run of
\* every call
C29_RefreshesIndependent ==
    \A r \in DOMAIN runs :
        /\ runs[r].at # "raised"
        /\ runs[r].at = "running" => query_json.file

\* C30: a request handled while a run refills the table of the cached
\* variables sees the whole table from before that refresh or the whole
\* table after it, never an empty or a half filled one
C30_CompleteTables ==
    \A q \in DOMAIN requests :
        requests[q].refilling # {} =>
            \E p \in requests[q].refilling :
                requests[q].variables = p[1] \/ requests[q].variables = p[2]
====
